---- MODULE Spec2Model ----
(***************************************************************************)
(* The workload scheduler (src/src/simulate/sim_workload.py) and the visit *)
(* runner (src/src/simulate/sim_visit.py) of the benchmark engine, as one  *)
(* asyncio event loop: the scheduler coroutine and one task per visit.     *)
(*                                                                         *)
(* Time is counted in ticks of half the default tolerance.  The clock      *)
(* `now` is time.time(); it saturates at MaxTime, which stands for         *)
(* "MaxTime or later".  Visits are numbered from 1 (the code counts from   *)
(* 0), requests of a visit by their position, from 1.                      *)
(*                                                                         *)
(* asyncio is cooperative: a coroutine runs from one await to the next     *)
(* without interruption, so each action below is one such stretch.  A      *)
(* visit task runs only while the scheduler is suspended in its sleep.     *)
(***************************************************************************)
EXTENDS Integers, Sequences, FiniteSets, TLC

\* ------------------------------------------------------------------ bounds
MaxVisits == 2       \* visits of a workload
MaxReqs == 3         \* requests of a lone visit
MaxPairReqs == 2     \* requests of each visit of a two-visit workload
MaxOffset == 1       \* largest start offset of a visit
MaxGap == 4          \* largest start offset in a schedule of one-request visits
MaxReqOffset == 1    \* largest scheduled offset of a request
MaxPieces == 1       \* pieces an adapter streams for one request of a lone visit
MaxFrames == 2       \* frames the transport delivers for one request of an adapter
MaxThreads == 2      \* worker threads running a test at the same time
MaxThreadReqs == 3   \* requests a thread's run sends
MaxRess == 2         \* ReqResponses handed to the report generator
MaxLog == 2          \* pieces in the loggings of one of them
MaxTokens == 2       \* tokens the tokenizer counts in one piece
MaxStamp == 3        \* the latest timestamp of a piece
MaxRecords == 2      \* records of a single-turn corpus, dialogs of a ConvAI2 corpus
MaxTurns == 3        \* utterances of a ConvAI2 dialog
MaxMessages == 4     \* messages of an OASST1 message tree
MaxChunks == 3       \* writes pickle.dump needs for one cache entry
MaxTimeStep == 1     \* largest time_step passed to the scheduler
MaxSkipGap == 13     \* largest start offset in a schedule with idle skipping
MaxEdits == 1        \* edits between a test's function text and the documented one
MaxStarts == 2       \* start_test calls for the test
MaxRunRess == 1      \* ReqResponses of the run whose artifacts are written
MantissaBits == 4    \* bits of a float's mantissa (53 in the code)
MaxCompressed == 2   \* visits of a workload handed to compress_workload
MaxFloatOffset == 7  \* largest offset of such a workload
MaxRatio == 5
MaxLegalReqs == 2
MaxLegalIds == 2
MaxLegalOffset == 1        \* largest mantissa of a compression ratio

\* time_tolerance, in ticks (sim_workload.py:36)
TIME_TOLERANCE == 2

NoOffset == -1       \* scheduled_offset is None
NoTime == -1         \* a timestamp not taken yet

VARIABLES
    now,          \* time.time()
    conf,         \* the run: time_step, check_size, skip_idle_min, endpoint_type,
                  \* model (whether one is configured), stamps (see Stamp)
    workload,     \* sequence of [offset, size]: start offset, number of requests
    sched_pc,     \* "entry" | "loop" | "sleep" | "done" | "raised" | "cancelled"
    task_log,     \* the trace logger's events of the task: init_task, mark_finish
    wake,         \* the time the scheduler's sleep ends
    cur_offset,   \* cur_offset of the last loop iteration
    launched,     \* the visit spawned by the last loop iteration, 0 if none
    next_index,   \* visits spawned so far (the code's next_index)
    tasks,        \* in-flight visit tasks, in launch order
    responses,    \* harvested <<index, VisitResponse>> pairs, in harvest order
    skip_offset,
    finish_ts,    \* set by mark_finish_for_task
    result,       \* the returned list
    visit,        \* per visit: the frame of its sim_visit task
    trace,        \* the trace logger: per visit and request, its last event
    openai_api_base,  \* the attribute api_base of the module openai, one per process
    thread,       \* per worker thread: the requests its run has sent through tgi.py
    ress,         \* the List[ReqResponse] handed to generate_request_level_report
    kwargs,       \* its kwargs: throughput_windows, throughput_step
    report,       \* what generate_request_level_report returned or raised
    stable,       \* what calculate_stable_average_throughput returned
    dataset,      \* a corpus, whether loading it works, whether tmp/ exists, the mode
    normalizer,   \* the object a normalizer's constructor leaves, and what it logged
    ds_workload,  \* what to_workload returned or raised
    root_dir,     \* whether the cache's root dir exists
    cache_file,   \* the file at cache_path: whether it exists, the chunks it holds
    caller,       \* per thread: its place in the cache wrapper, what it obtained
    test,         \* the test's row in the api server's db: config, status, error_info
    api,          \* per start_test call: its place in set_test_to_pending
    poll,         \* the worker's main loop: whether it holds a pending test
    run,          \* per worker thread: its place in run_with_config
    tmp,          \* the files of the directory tmp/
    answer,       \* the last answer of a GET /report/... handler
    compressed,   \* a workload, a ratio, and what compress_workload made of them
    checked       \* a visit and what assert_visit_is_legal did with it

schedVars == <<sched_pc, task_log, wake, cur_offset, launched, next_index, tasks,
               responses, skip_offset, finish_ts, result>>
threadVars == <<openai_api_base, thread>>
reportVars == <<ress, kwargs, report, stable>>
datasetVars == <<dataset, normalizer, ds_workload>>
cacheVars == <<root_dir, cache_file, caller>>
workerVars == <<test, api, poll, run, tmp, answer>>
utilVars == <<compressed, checked>>
offlineVars == <<reportVars, datasetVars, cacheVars, workerVars, utilVars>>
vars == <<now, conf, workload, schedVars, visit, trace, threadVars, offlineVars>>

\* The clock saturates above every offset the scheduler compares it with.
MaxTime ==
    (IF workload = <<>> THEN 0 ELSE workload[Len(workload)].offset) + TIME_TOLERANCE + 1

Visits == 1..MaxVisits
Threads == 1..MaxThreads
Reqs == 1..MaxReqs

Min(a, b) == IF a <= b THEN a ELSE b
Max(a, b) == IF a >= b THEN a ELSE b
Abs(x) == IF x < 0 THEN -x ELSE x

\* A time d after t, on the saturating clock.
After(t, d) == Min(t + d, MaxTime)

\* ------------------------------------------------------------- the inputs
\* Workloads: start offsets never decrease (key_timestamp_to_offset sorts).
RECURSIVE NonDecreasing(_)
NonDecreasing(w) ==
    \/ Len(w) <= 1
    \/ /\ w[1].offset <= w[2].offset
       /\ NonDecreasing(Tail(w))

Shapes(max_offset, max_size) == [offset : 0..max_offset, size : 1..max_size]

Schedules(visits, max_offset, max_size) ==
    { w \in UNION { [1..n -> Shapes(max_offset, max_size)] : n \in visits } :
        NonDecreasing(w) }

\* The empty workload, the lone visits, and the workloads of several visits.
Workloads ==
    Schedules(0..1, MaxOffset, MaxReqs) \cup Schedules(2..MaxVisits, MaxOffset, MaxPairReqs)

\* skip_idle_min = 0 stands for None (both are falsy at line 131).
\* The endpoint is one whose adapter is not among the sources, and a model is given.
Configs == [time_step : 0..MaxTimeStep, check_size : 1..MaxVisits, skip_idle_min : {0, 1},
            endpoint_type : {"vllm"}, model : {TRUE}, stamps : {FALSE}, indexed : {FALSE}]

\* The keys of the adapters.
Endpoints == {"openai", "vllm", "tgi", "friendliai", "triton"}

\* The runs of every endpoint, with and without a model in the configuration.
EndpointConfigs == [time_step : {1}, check_size : {1}, skip_idle_min : {0},
                    endpoint_type : Endpoints, model : BOOLEAN, stamps : {FALSE},
                    indexed : {FALSE}]

\* The runs whose responses keep their timestamps.
TimedConfigs == [time_step : {1}, check_size : {1}, skip_idle_min : {0},
                 endpoint_type : {"vllm"}, model : {TRUE}, stamps : {TRUE}, indexed : {FALSE}]

\* The runs whose streams carry pieces of a second choice (index 1).
ReplyConfigs == [time_step : {1}, check_size : {1}, skip_idle_min : {0},
                 endpoint_type : {"vllm"}, model : {TRUE}, stamps : {FALSE}, indexed : {TRUE}]

\* A lone visit at offset 0.
LoneWorkloads == Schedules(1..1, 0, MaxPairReqs)

\* The schedules of one-request visits, with wider gaps between the visits.
GapWorkloads == Schedules(2..MaxVisits, MaxGap, 1)

\* The schedules of one-request visits that start at once or after a gap wide
\* enough to be skipped.
SkipWorkloads ==
    { w \in Schedules(1..MaxVisits, MaxSkipGap, 1) :
        \A p \in 1..Len(w) : w[p].offset = 0 \/ w[p].offset >= MaxSkipGap - 1 }

\* The runs that skip idle time.
SkipConfigs == [time_step : {1}, check_size : {1}, skip_idle_min : {1, 2},
                endpoint_type : {"vllm"}, model : {TRUE}, stamps : {FALSE}, indexed : {FALSE}]

\* The workloads of one-request visits.
LiveWorkloads == Schedules(0..MaxVisits, MaxOffset, 1)

\* The pieces a stream delivers at most.  Only the streams of a lone visit deliver
\* pieces: two visits' streams multiply.
StreamBound ==
    IF Len(workload) # 1
    THEN 0
    ELSE IF conf.endpoint_type = "vllm" /\ ~conf.indexed THEN MaxPieces ELSE MaxFrames

\* The index of a ResPiece: the choice it belongs to
PieceIndexes == IF conf.indexed THEN {0, 1} ELSE {0}

\* scheduled_offset of a request: None or a number of ticks
ReqOffsets == {NoOffset} \cup (0..MaxReqOffset)

\* lines 79-88 of process_request, before the try: they complete, or one of them
\* raises (sim_req.messages(ctx) on a dep_id without a reply, shadow_params,
\* init_request)
PreOutcomes == {"ok", "raise"}

\* what an adapter's stream yields: a ResPiece with content, a ResPiece without
\* (content None or ""), the ResPiece of the frame before once more, an Exception,
\* or nothing more
StreamItems == {"piece", "blank", "repeat", "error", "end"}

\* ------------------------------------------------------- the visit runner
NoReturn == [state |-> "none", visit |-> 0, start |-> NoTime, end |-> NoTime,
             responses |-> <<>>, failed |-> FALSE]

\* The frame of a sim_visit task before it first runs.
NewFrame(i) == [visit_index |-> i, pc |-> "idle", k |-> 0, start |-> NoTime, off |-> NoOffset,
             rstart |-> NoTime, sched |-> NoTime, lat |-> 0,
             log |-> <<>>, packs |-> <<>>, good |-> 0, bad |-> 0, fail |-> FALSE, ctx |-> <<>>,
             resp |-> <<>>, abort |-> "none", ret |-> NoReturn,
             tr |-> [r \in Reqs |-> "none"]]

\* The locals of process_request and of the adapter are gone once it has returned.
Forget(f) ==
    [f EXCEPT !.off = NoOffset, !.rstart = NoTime, !.sched = NoTime, !.lat = 0,
              !.log = <<>>, !.packs = <<>>, !.good = 0, !.bad = 0, !.fail = FALSE]

\* A timestamp as the responses keep it.  No timestamp of a response decides a
\* branch of the code; the responses keep them in the runs of TimedConfigs only.
Stamp(t) == IF conf.stamps THEN t ELSE NoTime

\* failed = any(r.error_info is not None for r in responses)
AnyError(resps) == \E p \in 1..Len(resps) : resps[p].error

\* The mutant of ReturnVisit: end_timestamp is visit_start_time.
ReturnVisitEndAtStart(f, t) ==
    [Forget(f) EXCEPT !.pc = "done", !.k = 0, !.ctx = <<>>,
              !.ret = [state |-> "returned", visit |-> f.visit_index,
                       start |-> f.start, end |-> Stamp(f.start), responses |-> f.resp,
                       failed |-> AnyError(f.resp)]]

\* sim_visit returns its VisitResponse; the task is done and its locals are gone.
ReturnVisit(f, t) ==
    [Forget(f) EXCEPT !.pc = "done", !.k = 0, !.ctx = <<>>,
              !.ret = [state |-> "returned", visit |-> f.visit_index,
                       start |-> f.start, end |-> Stamp(t), responses |-> f.resp,
                       failed |-> AnyError(f.resp)]]

\* The mutant of OnUnexpectedError: no except clause, the task ends with the exception.
PropagateError(f, t) ==
    [Forget(f) EXCEPT !.pc = "done", !.k = 0, !.ctx = <<>>,
              !.ret = [NoReturn EXCEPT !.state = "raised", !.visit = f.visit_index]]

\* sim_visit's except clause: the error is logged, the loop is left, and the
\* VisitResponse is built from the responses appended so far.
OnUnexpectedError(f, t) == ReturnVisit(f, t)

\* The mutant of MustSleep: schedule_request never sleeps.
NeverSleep(start, off, t) == FALSE

\* schedule_request: sleep iff an offset is given and its time is still ahead.
MustSleep(start, off, t) == off # NoOffset /\ t < start + off

\* line 137: max(0, req_start_time - (visit_start_time + scheduled_offset)), or 0
\* when scheduled_offset is None
calculate_launch_latency(visit_start_time, scheduled_offset, req_start_time) ==
    IF scheduled_offset # NoOffset
    THEN Max(0, req_start_time - (visit_start_time + scheduled_offset))
    ELSE 0

\* get_streaming_inference and line 169-172 of perform_inference: the adapter the
\* key selects, or NotImplementedError
Dispatch(endpoint_type) ==
    IF endpoint_type = "friendliai"
    THEN "friendliai"
    ELSE IF endpoint_type \in {"openai", "togetherai", "aws", "vllm", "tgi"}
    THEN endpoint_type
    ELSE "NotImplementedError"

\* What perform_inference raises before it reads the stream (lines 162-172).
InferenceRaises(c) ==
    IF ~c.model
    THEN "ValueError"
    ELSE IF Dispatch(c.endpoint_type) = "NotImplementedError"
    THEN "NotImplementedError"
    ELSE "none"

\* the reply is every piece but the blank ones, of whatever choice
JoinEveryChoice(res_loggings) ==
    LET sel == SelectSeq(res_loggings, LAMBDA p : p.content)
    IN  [q \in 1..Len(sel) |-> sel[q].n]

\* Line 181 of perform_inference: the contents of the pieces of index 0 that
\* have one, joined.  The content of a piece is known by its arrival number, so
\* the text is the sequence of these numbers; a piece with content "" adds
\* nothing to it, as one with content None.
ret_str(res_loggings) ==
    LET sel == SelectSeq(res_loggings, LAMBDA p : p.content /\ p.index = 0)
    IN  [q \in 1..Len(sel) |-> sel[q].n]

\* pieces is the response's loggings: the ResPieces in the order of the list handed
\* over, each with its arrival number, whether it carries content, and its
\* index; assistant is the content of the message appended to the dialog.
ReqResponse(f, t, e, res_loggings, reply) ==
    [req_id |-> f.k, pieces |-> res_loggings, error |-> e # "none", error_info |-> e,
     assistant |-> reply,
     start |-> f.rstart, end |-> Stamp(t), launch_latency |-> f.lat,
     \* what the request met, beside what the code stores
     scheduled |-> f.sched, frames |-> f.good, malformed |-> f.bad, failure |-> f.fail,
     packs |-> f.packs]

\* process_request when the stream has ended: ctx, success response, mark_success.
create_success_response(f, t) ==
    [ f |-> [f EXCEPT !.ctx = [id \in DOMAIN f.ctx \cup {f.k} |->
                                  IF id = f.k THEN ret_str(f.log) ELSE f.ctx[id]],
                      !.tr[f.k] = "success"],
      response |-> ReqResponse(f, t, "none", f.log, ret_str(f.log)) ]

\* The mutant of handle_inference_error: the response is built without error_info.
ErrorWithoutInfo(f, t, e) ==
    [ f |-> [f EXCEPT !.abort = "stream", !.tr[f.k] = "error"],
      response |-> ReqResponse(f, t, "none", <<>>, <<>>) ]

\* process_request when perform_inference raised e: error response, mark_error.
\* The res_loggings it hands over is process_request's own list (line 90), still
\* empty: the list perform_inference filled (line 165) is lost with its frame.
handle_inference_error(f, t, e) ==
    [ f |-> [f EXCEPT !.abort = IF e \in {"ValueError", "NotImplementedError"}
                                THEN "config" ELSE "stream",
                      !.tr[f.k] = "error"],
      response |-> ReqResponse(f, t, e, <<>>, <<>>) ]

\* The mutant of ContinueVisit: the loop goes on after an error response.
NeverBreak(response) == TRUE

\* sim_visit goes on to the next request unless response.error_info is set.
ContinueVisit(response) == ~response.error

RECURSIVE AfterResponse(_, _, _, _, _, _)

\* process_request from the end of schedule_request to the first await of the
\* stream: timestamps, dialog, init_request, and the start of perform_inference.
LaunchRequest(f, t, size, off, pre) ==
    LET g == [f EXCEPT !.rstart = Stamp(t),
                       !.sched = IF f.off = NoOffset THEN NoTime ELSE Stamp(f.start + f.off),
                       !.lat = IF conf.stamps
                               THEN calculate_launch_latency(f.start, f.off, t)
                               ELSE 0]
        h == [g EXCEPT !.off = NoOffset, !.log = <<>>, !.packs = <<>>, !.tr[f.k] = "init"]
        e == InferenceRaises(conf)
    IN  IF pre = "raise"
        THEN OnUnexpectedError([f EXCEPT !.abort = "pre"], t)
        ELSE IF e # "none"
        THEN LET r == handle_inference_error(h, t, e)
             IN  AfterResponse(r.f, t, r.response, size, off, pre)
        ELSE [h EXCEPT !.pc = "stream"]

\* The for loop of sim_visit takes request k: process_request up to its first await.
BeginRequest(f, t, k, size, off, pre) ==
    LET g == [f EXCEPT !.k = k, !.off = off]
    IN  IF MustSleep(g.start, off, t)
        THEN [g EXCEPT !.pc = "wait"]
        ELSE LaunchRequest(g, t, size, off, pre)

\* sim_visit after process_request has returned: append, break or go on.
AfterResponse(f, t, response, size, off, pre) ==
    LET g == Forget([f EXCEPT !.resp = Append(f.resp, response)])
    IN  IF ContinueVisit(response) /\ f.k < size
        THEN BeginRequest(g, t, f.k + 1, size, off, pre)
        ELSE ReturnVisit(g, t)

\* What the transport of a request does next: a well-formed frame with content, a
\* well-formed frame without (a delta with the role only, or the closing one), a
\* frame whose payload is not JSON, a failure (connection refused or timed out,
\* HTTP 5xx, HTTP 429), or the end of the stream.
TransportEvents == {"frame", "blank", "malformed", "refused", "http5xx", "http429", "end"}

TransportFailures == {"refused", "http5xx", "http429"}

\* The events an adapter's own code deals with.  vllm.py is not among the sources:
\* its stream is any sequence of pieces ending in an error or in the end.  The
\* openai and tgi adapters leave the decoding of the frames to the openai package,
\* and openai.py passes over a chunk without content (lines 29, 45): to
\* perform_inference it is as if it had not come.
EventsOf(adapter) ==
    CASE adapter = "friendliai" -> TransportEvents
      [] adapter = "tgi" -> TransportEvents \ {"malformed"}
      [] adapter = "openai" -> TransportEvents \ {"malformed", "blank"}
      [] OTHER -> {"frame", "blank", "refused", "end"}

\* openai.py lines 13-55: every exception becomes a ResPiece whose content is the
\* text of the error, and the generator ends.
openai_streaming_inference(event) ==
    CASE event = "frame" -> <<"piece">>
      [] event \in TransportFailures -> <<"piece", "end">>
      [] OTHER -> <<"end">>

\* tgi.py lines 16-62: every exception is yielded.
tgi_streaming_inference(event) ==
    CASE event = "frame" -> <<"piece">>
      [] event = "blank" -> <<"blank">>
      [] event \in TransportFailures -> <<"error">>
      [] OTHER -> <<"end">>

\* friendliai.py lines 19-80.  Only status 429 is tested: the body of a 5xx answer
\* is read as a stream without data: lines.  After a json.loads that failed the
\* code goes on with json_data: unbound at the first frame (UnboundLocalError,
\* yielded by the outer except), else still the frame before, whose pieces are
\* yielded again.
friendliai_streaming_inference(event, frames) ==
    CASE event = "frame" -> <<"piece">>
      [] event = "blank" -> <<"blank">>
      [] event = "malformed" -> IF frames = 0 THEN <<"error">> ELSE <<"repeat">>
      [] event \in {"refused", "http429"} -> <<"error">>
      [] event = "http5xx" -> <<"end">>
      [] OTHER -> <<"end">>

\* The items the adapter yields for an event of the transport.
streaming_func(adapter, event, frames) ==
    CASE adapter = "openai" -> openai_streaming_inference(event)
      [] adapter = "tgi" -> tgi_streaming_inference(event)
      [] adapter = "friendliai" -> friendliai_streaming_inference(event, frames)
      [] OTHER -> tgi_streaming_inference(event)

\* The exception an error item carries.
StreamError(f) ==
    IF f.bad > 0 /\ ~f.fail THEN "UnboundLocalError" ELSE "transport"

\* Lines 177-179 of perform_inference: the piece joins res_loggings, and
\* log_new_pack is emitted if it has content.
OnPiece(f, content, index) ==
    [f EXCEPT !.log = Append(f.log, [n |-> Len(f.log) + 1, content |-> content,
                                     index |-> index]),
              !.packs = IF content THEN Append(f.packs, Len(f.log) + 1) ELSE f.packs]

\* perform_inference receives the next item of the stream.
OnStreamItem(f, t, item, size, off, pre, index) ==
    CASE item = "piece" -> OnPiece(f, TRUE, index)
      [] item = "blank" -> OnPiece(f, FALSE, index)
      [] item = "repeat" -> OnPiece(f, f.log[Len(f.log)].content, f.log[Len(f.log)].index)
      [] item = "error" ->
            LET r == handle_inference_error(f, t, StreamError(f))
            IN  AfterResponse(r.f, t, r.response, size, off, pre)
      [] item = "end" ->
            LET r == create_success_response(f, t)
            IN  AfterResponse(r.f, t, r.response, size, off, pre)

\* The transport's next event, through the adapter, to perform_inference.
OnTransportEvent(f, t, event, size, off, pre, index) ==
    LET g == [f EXCEPT !.good = IF event \in {"frame", "blank"} THEN f.good + 1 ELSE f.good,
                       !.bad = IF event = "malformed" THEN f.bad + 1 ELSE f.bad,
                       !.fail = f.fail \/ event \in TransportFailures]
        items == streaming_func(Dispatch(conf.endpoint_type), event, f.good)
        first == OnStreamItem(g, t, items[1], size, off, pre, index)
    IN  IF Len(items) = 1
        THEN first
        ELSE OnStreamItem(first, t, items[2], size, off, pre, index)

\* The frame of visit i: the task's locals, with the visit's rows of the trace.
Strip(f) == [x \in DOMAIN f \ {"tr"} |-> f[x]]
Frame(i) == visit[i] @@ [tr |-> trace[i]]

\* The task of visit i runs one stretch and is left in frame f.
Leave(i, f) ==
    /\ \E g \in {f} :   \* f is computed once
          /\ visit' = [visit EXCEPT ![i] = Strip(g)]
          /\ trace' = [trace EXCEPT ![i] = g.tr]
    /\ UNCHANGED <<now, conf, workload, schedVars, threadVars, offlineVars>>

\* A visit task runs only while the scheduler coroutine is suspended, or after
\* it ended with CancelledError: the tasks it created stay in the event loop.
Suspended == sched_pc \in {"sleep", "cancelled"}

\* The task's first stretch: visit_start_time, then the first request.
VisitStart(i) ==
    /\ Suspended
    /\ visit[i].pc = "created"
    /\ \E off \in ReqOffsets, pre \in PreOutcomes :
          Leave(i, BeginRequest([Frame(i) EXCEPT !.start = now], now, 1,
                                workload[i].size, off, pre))

\* The sleep of schedule_request is over.
VisitWake(i) ==
    /\ Suspended
    /\ visit[i].pc = "wait"
    /\ now >= After(visit[i].start, visit[i].off)
    /\ \E off \in ReqOffsets, pre \in PreOutcomes :
          Leave(i, LaunchRequest(Frame(i), now, workload[i].size, off, pre))

\* The adapter's stream delivers its next item, or ends.
VisitStream(i) ==
    /\ Suspended
    /\ visit[i].pc = "stream"
    /\ \E event \in EventsOf(Dispatch(conf.endpoint_type)),
          off \in ReqOffsets, pre \in PreOutcomes, index \in PieceIndexes :
          /\ event \in {"frame", "blank", "malformed"} =>
                visit[i].good + visit[i].bad < StreamBound
          /\ event \in {"http5xx", "http429"} => visit[i].good + visit[i].bad = 0
          /\ Leave(i, OnTransportEvent(Frame(i), now, event, workload[i].size, off, pre,
                                       index))

\* ---------------------------------------------------------- the scheduler
\* start_timestamp (line 64): the scheduler starts at tick 0
start_timestamp == 0

\* line 70
CurOffset(t, skip) == t - start_timestamp + skip

\* The mutant of LaunchDue without abs(): any visit less than the tolerance late
\* is spawned, however early.
LaunchDueNoAbs(c, off) == c - off < TIME_TOLERANCE \/ c - off > TIME_TOLERANCE

\* The mutant of NextOffset: the offset of the visit spawned last is read.
PreviousOffset(w, ni) == w[Max(ni, 1)].offset

\* workload[next_index][0], the offset of the next visit to spawn
NextOffset(w, ni) == w[ni + 1].offset

\* lines 78-84: the visit is spawned in this iteration
LaunchDue(c, off) ==
    LET launch_immediately == c - off > TIME_TOLERANCE
    IN  Abs(c - off) < TIME_TOLERANCE \/ launch_immediately

\* lines 113-125: of the first check_size tasks, the done ones are taken out
Harvest(ts, check_size, fr) ==
    LET m == Min(check_size, Len(ts))
        head == SubSeq(ts, 1, m)
    IN  [ got |-> SelectSeq(head, LAMBDA i : fr[i].pc = "done"),
          tasks |-> SelectSeq(head, LAMBDA i : fr[i].pc # "done")
                      \o SubSeq(ts, m + 1, Len(ts)) ]

\* Task.result() re-raises the exception a task ended with (line 119).
Raises(got, fr) == \E p \in 1..Len(got) : fr[got[p]].ret.state = "raised"

\* line 119: the pairs appended to responses, up to a result() that raises
RECURSIVE Results(_, _)
Results(got, fr) ==
    IF got = <<>> \/ fr[Head(got)].ret.state = "raised"
    THEN <<>>
    ELSE << <<Head(got), fr[Head(got)].ret>> >> \o Results(Tail(got), fr)

\* lines 129-135: the idle time skipped; None and 0 are both falsy
\* The mutant of IdleSkip: the whole gap to the next visit is skipped.
SkipWholeGap(next_time, c, time_step, skip_idle_min) ==
    IF skip_idle_min # 0 /\ next_time # 0 THEN Max(0, next_time - c) ELSE 0

IdleSkip(next_time, c, time_step, skip_idle_min) ==
    IF skip_idle_min # 0 /\ next_time # 0
    THEN Max(0, next_time - c - 10 * time_step - skip_idle_min)
    ELSE 0

\* The mutant of SortResponses: the responses are returned in harvest order.
Unsorted(rs) == rs

\* line 144: responses.sort(key=lambda x: x[0]), a stable sort
RECURSIVE SortResponses(_)
SortResponses(rs) ==
    IF rs = <<>>
    THEN <<>>
    ELSE LET x == rs[Len(rs)]
             s == SortResponses(SubSeq(rs, 1, Len(rs) - 1))
             p == Cardinality({q \in 1..Len(s) : s[q][1] <= x[1]})
         IN  SubSeq(s, 1, p) \o <<x>> \o SubSeq(s, p + 1, Len(s))

\* line 61: total_req_num = sum(len(v) for _, v in workload)
RECURSIVE TotalReqNum(_)
TotalReqNum(w) == IF w = <<>> THEN 0 ELSE Head(w).size + TotalReqNum(Tail(w))

\* lines 59-66: the counters are set, start_timestamp is taken, init_task is emitted.
SchedStart ==
    /\ sched_pc = "entry"
    /\ sched_pc' = "loop"
    /\ task_log' = Append(task_log, [event |-> "init_task", total |-> TotalReqNum(workload)])
    /\ UNCHANGED <<now, conf, workload, wake, cur_offset, launched, next_index, tasks,
                   responses, skip_offset, finish_ts, result, visit, trace, threadVars,
                   offlineVars>>

\* The mutant of BreakDue: the loop is left only after a visit was spawned.
BreakAfterSpawn(idle, ni, n) == idle /\ ni = n /\ n > 0

\* lines 128, 137-138: no task is in flight and every visit was spawned
BreakDue(idle, ni, n) == idle /\ ni = n

\* One iteration of the while loop, lines 68-141, and what follows the break.
SchedIterate ==
    /\ \/ sched_pc = "loop"
       \/ /\ sched_pc = "sleep"
          /\ now >= wake
          \* a task created in the last iteration runs before the timer fires
          /\ \A i \in Visits : visit[i].pc # "created"
    /\ LET c == CurOffset(now, skip_offset)
           n == Len(workload)
           spawn == next_index < n /\ LaunchDue(c, NextOffset(workload, next_index))
           ni == IF spawn THEN next_index + 1 ELSE next_index
           ts == IF spawn THEN Append(tasks, ni) ELSE tasks
           fr == IF spawn THEN [visit EXCEPT ![ni].pc = "created"] ELSE visit
           h == Harvest(ts, conf.check_size, fr)
           idle == ts = <<>>
           next_time == IF ni < n THEN NextOffset(workload, ni) ELSE 0
           skip == IF idle
                   THEN IdleSkip(next_time, c, conf.time_step, conf.skip_idle_min)
                   ELSE 0
           rs == IF idle THEN responses ELSE responses \o Results(h.got, fr)
       IN  /\ cur_offset' = c
           /\ launched' = IF spawn THEN ni ELSE 0
           /\ next_index' = ni
           /\ visit' = fr
           /\ tasks' = IF idle THEN ts ELSE h.tasks
           /\ responses' = rs
           /\ skip_offset' = skip_offset + skip
           /\ IF ~idle /\ Raises(h.got, fr)
              THEN /\ sched_pc' = "raised"
                   /\ UNCHANGED <<wake, finish_ts, result, task_log>>
              ELSE IF BreakDue(idle, ni, n)
              THEN /\ sched_pc' = "done"
                   /\ result' = [p \in 1..Len(rs) |-> SortResponses(rs)[p][2]]
                   /\ finish_ts' = now
                   /\ task_log' = Append(task_log, [event |-> "mark_finish_for_task", total |-> 0])
                   /\ UNCHANGED wake
              ELSE /\ sched_pc' = IF conf.time_step # 0 THEN "sleep" ELSE "loop"
                   /\ wake' = IF conf.time_step # 0 THEN After(now, conf.time_step) ELSE wake
                   /\ UNCHANGED <<finish_ts, result, task_log>>
    /\ UNCHANGED <<now, conf, workload, trace, threadVars, offlineVars>>

\* time.time() advances
Tick ==
    /\ now < MaxTime
    /\ sched_pc \in {"loop", "sleep", "cancelled"}
    /\ now' = now + 1
    /\ UNCHANGED <<conf, workload, schedVars, visit, trace, threadVars, offlineVars>>

\* The scheduler's task is cancelled: CancelledError is thrown into the coroutine at
\* its await (line 141).  No clause of the function catches it: the coroutine ends
\* there, without line 144-147 and without cancelling the tasks it created.
Cancel ==
    /\ sched_pc = "sleep"
    /\ sched_pc' = "cancelled"
    /\ UNCHANGED <<now, conf, workload, task_log, wake, cur_offset, launched, next_index,
                   tasks, responses, skip_offset, finish_ts, result, visit, trace,
                   threadVars, offlineVars>>

\* No report has been asked for.
NoReport ==
    /\ ress = <<>>
    /\ kwargs = [throughput_windows |-> 0, throughput_step |-> 0]
    /\ report = [status |-> "none"]
    /\ stable = [status |-> "none"]

\* No normalizer has been constructed.
NoDataset ==
    /\ dataset = [name |-> "none"]
    /\ normalizer = [status |-> "none"]
    /\ ds_workload = [status |-> "none"]

\* No thread has called a cached method.
NoCache ==
    /\ root_dir = TRUE
    /\ cache_file = [exists |-> FALSE, chunks |-> {}]
    /\ caller = [r \in Threads |-> [pc |-> "idle", offset |-> 0, got |-> "none"]]

\* A thread of the worker that has not been started.
NoRun == [pc |-> "idle", evaluated |-> FALSE, ret |-> "none", wrote |-> "none",
          sim |-> [called |-> FALSE, sim_start_time |-> "None", endpoint_type |-> "",
                   task_id |-> "", outcome |-> "none"]]

\* No test is registered with the api server.
NoWorker ==
    /\ test = [status |-> "none"]
    /\ api = <<>>
    /\ poll = "idle"
    /\ run = <<>>
    /\ tmp = {}
    /\ answer = [path |-> "none", code |-> 0]

\* No workload is being compressed or checked.
NoUtil ==
    /\ compressed = [stage |-> "none"]
    /\ checked = [outcome |-> "none"]

\* Nothing happens beside the run.
Offline == NoReport /\ NoDataset /\ NoCache /\ NoWorker /\ NoUtil

\* The state on entry to the scheduler: nothing emitted, nothing spawned.
Started ==
    /\ now = start_timestamp
    /\ sched_pc = "entry"
    /\ task_log = <<>>
    /\ wake = 0
    /\ cur_offset = NoTime
    /\ launched = 0
    /\ next_index = 0
    /\ tasks = <<>>
    /\ responses = <<>>
    /\ skip_offset = 0
    /\ finish_ts = NoTime
    /\ result = <<>>
    /\ visit = [i \in Visits |-> Strip(NewFrame(i))]
    /\ trace = [i \in Visits |-> NewFrame(i).tr]
    /\ openai_api_base = "https://api.openai.com/v1"
    /\ thread = [r \in Threads |-> [pc |-> "ready", k |-> 0, sent |-> <<>>]]

Init ==
    /\ conf \in Configs
    /\ workload \in Workloads
    /\ Started
    /\ Offline

InitGap ==
    /\ conf \in Configs
    /\ workload \in GapWorkloads
    /\ Started
    /\ Offline

InitLive ==
    /\ conf \in Configs
    /\ workload \in LiveWorkloads
    /\ Started
    /\ Offline

Next ==
    \/ Tick
    \/ SchedStart
    \/ SchedIterate
    \/ \E i \in Visits : VisitStart(i)
    \/ \E i \in Visits : VisitWake(i)
    \/ \E i \in Visits : VisitStream(i)

Spec == Init /\ [][Next]_vars

InitEndpoint ==
    /\ conf \in EndpointConfigs
    /\ workload \in LoneWorkloads
    /\ Started
    /\ Offline

\* A lone visit against each endpoint.
SpecEndpoint == InitEndpoint /\ [][Next]_vars

InitReply ==
    /\ conf \in ReplyConfigs
    /\ workload \in LoneWorkloads
    /\ Started
    /\ Offline

\* A lone visit whose streams carry two choices.
SpecReply == InitReply /\ [][Next]_vars

InitTimed ==
    /\ conf \in TimedConfigs
    /\ workload \in LoneWorkloads
    /\ Started
    /\ Offline

\* A lone visit whose responses keep their timestamps.
SpecTimed == InitTimed /\ [][Next]_vars

\* ------------------------------------------------ the worker's threads
\* worker.py lines 119-127 start one thread per pending test; each thread runs its
\* test's scheduler in an event loop of its own, in the one process.  The api_base
\* of the run of thread r:
ApiBase(r) == r

\* tgi.py line 17, in thread r: openai.api_base = kwargs.pop("api_base").  The
\* run's api_base is now nowhere in kwargs.
SetApiBase(r) ==
    /\ thread[r].pc = "ready"
    /\ thread[r].k < MaxThreadReqs
    /\ openai_api_base' = ApiBase(r)
    /\ thread' = [thread EXCEPT ![r].pc = "configured"]
    /\ UNCHANGED <<now, conf, workload, schedVars, visit, trace, offlineVars>>

\* tgi.py lines 21 and 38, in thread r: acreate(...) is called without api_base,
\* so the request goes to what the attribute of the module holds by then.
SendRequest(r) ==
    /\ thread[r].pc = "configured"
    /\ thread' = [thread EXCEPT ![r].pc = "ready", ![r].k = @ + 1,
                                ![r].sent = Append(@, openai_api_base)]
    /\ UNCHANGED <<now, conf, workload, schedVars, visit, trace, openai_api_base,
                   offlineVars>>

InitThreads ==
    /\ conf \in EndpointConfigs /\ conf.endpoint_type = "tgi" /\ conf.model
    /\ workload = <<>>
    /\ Started
    /\ Offline

\* The threads of two runs, each preempted between any two of its steps.
NextThreads == \E r \in Threads : SetApiBase(r) \/ SendRequest(r)

\* Two runs of the tgi endpoint in two threads of the worker.
SpecThreads == InitThreads /\ [][NextThreads]_vars

\* The scheduler may be cancelled by its caller.
NextCancel == Next \/ Cancel

\* The workloads of one-request visits, with cancellation.
SpecCancel == InitLive /\ [][NextCancel]_vars

\* The schedules of one-request visits.
SpecGap == InitGap /\ [][Next]_vars

InitSkip ==
    /\ conf \in SkipConfigs
    /\ workload \in SkipWorkloads
    /\ Started
    /\ Offline

\* One-request visits far apart, with skip_idle_min set.
SpecSkip == InitSkip /\ [][Next]_vars

\* The event loop runs every callback that is ready, timers fire, time passes,
\* and every stream delivers its next item or ends.
Fairness ==
    /\ WF_vars(Tick)
    /\ WF_vars(SchedStart)
    /\ WF_vars(SchedIterate)
    /\ \A i \in Visits :
          WF_vars(VisitStart(i)) /\ WF_vars(VisitWake(i)) /\ WF_vars(VisitStream(i))

\* The workloads of one-request visits, under fair scheduling.
FairSpec == InitLive /\ [][Next]_vars /\ Fairness

\* ----------------------------------------------------------------- claims
N == Len(workload)
Returned == sched_pc = "done"
Done(i) == visit[i].pc = "done"
Aborted(i) == visit[i].abort # "none"

\* C1: on normal termination the returned list holds exactly one VisitResponse per
\* visit of the workload, the p-th being the one visit p returned, whatever the
\* order in which the visits completed and were harvested.
C1_ReturnsOnePerVisitInOrder ==
    Returned =>
        /\ Len(result) = N
        /\ \A p \in 1..N : Done(p) /\ result[p] = visit[p].ret /\ result[p].visit = p

\* C1 witness: the scheduler has returned after harvesting visit 2 before visit 1.
C1_Witness ==
    /\ Returned
    /\ N = 2
    /\ responses[1][1] = 2

\* C2: whenever a step of processing a request raised, before the try or in the
\* stream, the visit has marked the request as error in the trace, its last
\* ReqResponse is the error of that request, no later request was launched and
\* its VisitResponse has failed = true.
C2_AnyExceptionFailsVisit ==
    \A i \in 1..N :
        Aborted(i) =>
            LET r == visit[i].resp
                k == Len(r)
            IN  /\ Done(i)
                /\ visit[i].ret.failed
                /\ k >= 1
                /\ r[k].error
                /\ trace[i][r[k].req_id] = "error"
                /\ \A j \in Reqs : j > k => trace[i][j] = "none"

\* C3: if the adapter yields an error item for the request at position k, the
\* VisitResponse holds exactly k ReqResponses, k-1 successes followed by one
\* error, failed is true, and no init_request is emitted for a request after k.
C3_StreamErrorAbortsVisit ==
    \A i \in 1..N :
        visit[i].abort = "stream" =>
            LET r == visit[i].ret.responses
                k == Len(r)
            IN  /\ Done(i)
                /\ k >= 1
                /\ \A p \in 1..k : r[p].req_id = p /\ (r[p].error <=> p = k)
                /\ visit[i].ret.failed
                /\ trace[i][k] = "error"
                /\ \A j \in Reqs : j > k => trace[i][j] = "none"

\* C3 witness: the stream of the second of three requests yielded an error item.
C3_Witness ==
    \E i \in 1..N :
        /\ visit[i].abort = "stream"
        /\ workload[i].size = 3
        /\ Len(visit[i].ret.responses) = 2

\* C4: in every VisitResponse only the last ReqResponse can carry error_info, and
\* failed = false holds exactly when every request of the visit was run and
\* succeeded.
C4_FailedIffNotAllSucceeded ==
    \A i \in 1..N :
        Done(i) =>
            LET r == visit[i].ret.responses
            IN  /\ \A p \in 1..Len(r) : r[p].error => p = Len(r)
                /\ ~visit[i].ret.failed <=>
                      (Len(r) = workload[i].size /\ \A p \in 1..Len(r) : ~r[p].error)

\* C6: within one visit init_request for the request at position k+1 is never
\* emitted before the request at position k is marked success, and at most one
\* request of the visit is in flight.
C6_RequestsStrictlySequential ==
    \A i \in Visits :
        /\ \A k \in Reqs :
              (k + 1 \in Reqs /\ trace[i][k + 1] # "none") => trace[i][k] = "success"
        /\ Cardinality({k \in Reqs : trace[i][k] = "init"}) <= 1

\* C6 witness: the second request of a visit is in flight.
C6_Witness == \E i \in 1..N : trace[i][2] = "init"

\* A visit has ended in failure: an error response, or an abandoned request.
Failed(i) == Done(i) /\ (visit[i].ret.failed \/ Aborted(i))

\* C5: once a visit has failed the scheduler does not end with an exception, it
\* goes on to return, and the list it returns holds the VisitResponse of every
\* visit of the workload.
C5_FailedVisitNeverStopsScheduler ==
    /\ [](\A i \in 1..N :
            Failed(i) =>
                /\ sched_pc # "raised"
                /\ Returned => \A j \in 1..N : Done(j) /\ result[j] = visit[j].ret)
    /\ ((\E i \in 1..N : Failed(i)) ~> Returned)

\* C5 witness: the scheduler has returned the response of a visit that completed
\* all its requests after another visit had failed.
C5_Witness ==
    /\ Returned
    /\ \E i, j \in 1..N :
          /\ Failed(i)
          /\ ~Failed(j)
          /\ responses[1][1] = i

\* C7: when the scheduler goes to sleep after an iteration that spawned a visit,
\* no visit that was due in that iteration (offset <= cur_offset) is left
\* unspawned.
C7_AllDueVisitsSpawnedTogether ==
    (sched_pc = "sleep" /\ launched # 0 /\ next_index < N) =>
        workload[next_index + 1].offset > cur_offset

\* C8 as claimed: a visit is spawned only when cur_offset has reached its offset.
C8_NeverSpawnedEarly ==
    launched # 0 => cur_offset >= workload[launched].offset

\* C8, amended: a visit is spawned only when cur_offset is less than
\* TIME_TOLERANCE short of its offset.
C8_SpawnedWithinTolerance ==
    launched # 0 => cur_offset > workload[launched].offset - TIME_TOLERANCE

\* C8 witness: a visit spawned before its offset.
C8_Witness ==
    /\ launched # 0
    /\ cur_offset < workload[launched].offset

\* The schedule is [(0, V1), (d, V2)], skip_idle_min is unset, both have started.
S3(d) ==
    /\ N = 2
    /\ workload[1].offset = 0
    /\ workload[2].offset = d
    /\ conf.skip_idle_min = 0
    /\ visit[1].start # NoTime
    /\ visit[2].start # NoTime

\* C9 as claimed: V2 starts at least d - TIME_TOLERANCE after V1 has started.
C9_GapBetweenVisitStarts ==
    \A d \in 0..MaxGap :
        S3(d) => visit[2].start - visit[1].start >= d - TIME_TOLERANCE

\* C9, amended: V2 starts at least d - TIME_TOLERANCE after the scheduler's
\* start_timestamp.
C9_GapFromSchedulerStart ==
    \A d \in 0..MaxGap :
        S3(d) => visit[2].start - start_timestamp >= d - TIME_TOLERANCE

\* C9 witness: V2, scheduled at MaxGap, has started before MaxGap.
C9_Witness == S3(MaxGap) /\ visit[2].start < MaxGap

\* C10: the scheduler eventually breaks out of its loop and returns.
C10_SchedulerTerminates == <>Returned

\* C13: for an empty workload the scheduler emits init_task with a request total
\* of 0, spawns nothing, leaves its loop in the first iteration without raising,
\* emits mark_finish_for_task after init_task and returns an empty list.
C13_EmptyWorkloadReturnsEmpty ==
    workload = <<>> =>
        /\ sched_pc \in {"entry", "loop", "done"}
        /\ next_index = 0 /\ tasks = <<>>
        /\ \A i \in Visits : visit[i].pc = "idle"
        /\ \A i \in Visits, r \in Reqs : trace[i][r] = "none"
        /\ sched_pc = "entry" => task_log = <<>>
        /\ sched_pc = "loop" =>
              /\ cur_offset = NoTime
              /\ task_log = <<[event |-> "init_task", total |-> 0]>>
        /\ Returned =>
              /\ result = <<>>
              /\ finish_ts # NoTime
              /\ task_log = <<[event |-> "init_task", total |-> 0],
                              [event |-> "mark_finish_for_task", total |-> 0]>>

\* C13 witness: the scheduler has returned from an empty workload.
C13_Witness == workload = <<>> /\ Returned /\ Len(task_log) = 2

\* C11: when the scheduler was cancelled after some visits had completed and were
\* harvested, its result holds their VisitResponses in workload order and
\* mark_finish_for_task was emitted (finish_ts is set).
C11_CancelYieldsCompleted ==
    (sched_pc = "cancelled" /\ responses # <<>>) =>
        /\ finish_ts # NoTime
        /\ \E p \in 1..Len(task_log) : task_log[p].event = "mark_finish_for_task"
        /\ result = [p \in 1..Len(responses) |-> SortResponses(responses)[p][2]]

\* C12: once the scheduler is cancelled no visit emits a further event: the trace
\* (init_request, log_new_pack, mark_success, mark_error) and the visits' piece
\* counts stay as they are.
C12_NoEventAfterCancel ==
    [][sched_pc = "cancelled" =>
          /\ trace' = trace
          /\ \A i \in Visits : visit'[i].log = visit[i].log]_vars

\* C14: a request that met a failure of the transport (connection refused or
\* timed out, HTTP 5xx, HTTP 429) has a ReqResponse with error_info set, it is the
\* last of its visit, and the visit has failed; it is never a success.
C14_TransportFailureIsError ==
    \A i \in 1..N :
        \A p \in 1..Len(visit[i].resp) :
            visit[i].resp[p].failure =>
                /\ visit[i].resp[p].error
                /\ p = Len(visit[i].resp)
                /\ Done(i) /\ visit[i].ret.failed

\* C15: a frame whose payload fails JSON decoding adds no piece and does not end
\* the stream: while a request streams, and in its ReqResponse, the pieces logged
\* are one per well-formed frame, and unless the transport failed the request that
\* met a malformed frame succeeds.
C15_MalformedFrameSkipped ==
    \A i \in 1..N :
        /\ (visit[i].pc = "stream" /\ visit[i].bad > 0) => Len(visit[i].log) = visit[i].good
        /\ \A p \in 1..Len(visit[i].resp) :
              LET r == visit[i].resp[p]
              IN  (r.malformed > 0 /\ ~r.failure) => (~r.error /\ Len(r.pieces) = r.frames)

\* C16: when the configuration has no model or names an unsupported endpoint, no
\* visit is ever spawned and no init_request is emitted.
C16_ConfigErrorBeforeSimulation ==
    InferenceRaises(conf) # "none" =>
        /\ next_index = 0
        /\ \A i \in Visits : visit[i].pc = "idle"
        /\ \A i \in Visits, r \in Reqs : trace[i][r] = "none"

\* C18: with a model configured and any of the keys openai, vllm, tgi, friendliai,
\* triton, no request fails because no adapter was selected for the key.
C18_EveryKeySelectsAdapter ==
    (conf.endpoint_type \in Endpoints /\ conf.model) =>
        \A i \in 1..N :
            \A p \in 1..Len(visit[i].resp) :
                visit[i].resp[p].error_info # "NotImplementedError"

\* C19: every ReqResponse has launch_latency >= 0, and for a request with a
\* scheduled offset launch_latency is 0 exactly when the request started within
\* TIME_TOLERANCE of visit_start + offset.
C19_LatencyZeroIffWithinTolerance ==
    \A i \in 1..N :
        \A p \in 1..Len(visit[i].resp) :
            LET r == visit[i].resp[p]
            IN  /\ r.launch_latency >= 0
                /\ (conf.stamps /\ r.scheduled # NoTime) =>
                      (r.launch_latency = 0 <=> Abs(r.start - r.scheduled) <= TIME_TOLERANCE)

\* C20: the VisitResponse of a visit starts no later than it ends, and each of its
\* ReqResponses, successful or failed, lies within it and starts no later than it
\* ends; the same holds of the responses of a visit still running, up to now.
C20_TimestampsNested ==
    \A i \in 1..N :
        /\ conf.stamps =>
              \A p \in 1..Len(visit[i].resp) :
                  LET r == visit[i].resp[p]
                  IN  visit[i].start <= r.start /\ r.start <= r.end /\ r.end <= now
        /\ (conf.stamps /\ visit[i].ret.state = "returned") =>
              LET v == visit[i].ret
              IN  /\ v.start <= v.end
                  /\ \A p \in 1..Len(v.responses) :
                        /\ v.start <= v.responses[p].start
                        /\ v.responses[p].start <= v.responses[p].end
                        /\ v.responses[p].end <= v.end

\* C20 witness: a returned visit of a success and a failed request, the second
\* started after the first had ended, the visit ending after it started.
C20_Witness ==
    \E i \in 1..N :
        /\ conf.stamps
        /\ visit[i].ret.state = "returned"
        /\ Len(visit[i].ret.responses) = 2
        /\ visit[i].ret.responses[2].error
        /\ visit[i].ret.responses[1].end < visit[i].ret.responses[2].start
        /\ visit[i].ret.start < visit[i].ret.end

\* C17: every request of a run is sent with the api_base of that run, whatever
\* the other thread's run does in between.
C17_RunsUseOwnApiBase ==
    \A r \in Threads :
        \A p \in 1..Len(thread[r].sent) : thread[r].sent[p] = ApiBase(r)

\* ------------------------------------------------ the loggings of a request
\* The arrival numbers of the pieces of a loggings list that carry content.
ContentPieces(loggings) ==
    LET sel == SelectSeq(loggings, LAMBDA piece : piece.content)
    IN  [q \in 1..Len(sel) |-> sel[q].n]

\* C21: the loggings of every ReqResponse hold the pieces received for the
\* request in arrival order: the log_new_pack events emitted for the request are
\* exactly the content-bearing pieces of its loggings, also when the request
\* failed after some pieces had arrived.
C21_LoggingsHoldEveryPiece ==
    \A i \in 1..N :
        \A p \in 1..Len(visit[i].resp) :
            visit[i].resp[p].packs = ContentPieces(visit[i].resp[p].pieces)

\* ------------------------------------------------ the report generator
\* A ResPiece of the loggings with its timestamp.  num is what
\* count_tokens_from_str counts in its content, 0 for a piece without content.
Pieces == [ts : 0..MaxStamp, num : 0..MaxTokens]

\* The loggings of a request: its pieces in arrival order.
Loggings ==
    { g \in UNION { [1..n -> Pieces] : n \in 0..MaxLog } :
        \A p \in 1..Len(g) - 1 : g[p].ts <= g[p + 1].ts }

\* The ReqResponses of a run.  A failed one has no loggings (handle_inference_error).
ReportResponses ==
    [error_info : {"none"}, start_timestamp : {0}, end_timestamp : {MaxStamp},
     launch_latency : 0..1, loggings : Loggings]
    \cup
    [error_info : {"transport"}, start_timestamp : {0}, end_timestamp : {MaxStamp},
     launch_latency : 0..1, loggings : {<<>>}]

\* throughput_windows and throughput_step, in ticks of the timestamps
ReportKwargs == [throughput_windows : {2}, throughput_step : {1, 2}]

\* trim_percent of calculate_stable_average_throughput
TrimPercents == {5, 25}

\* a / b as Python's float division gives it: kept as the pair
Frac(a, b) == [num |-> a, den |-> b]

\* line 23
success(rs) == SelectSeq(rs, LAMBDA res : res.error_info = "none")

\* line 26
TTFT(rs) ==
    LET s == SelectSeq(success(rs), LAMBDA res : res.loggings # <<>>)
    IN  [p \in 1..Len(s) |-> s[p].loggings[1].ts - s[p].start_timestamp]

\* line 27: one boolean per successful request
start_on_time(rs) ==
    [p \in 1..Len(success(rs)) |-> success(rs)[p].launch_latency = 0]

\* line 28
time_per_request(rs) ==
    [p \in 1..Len(success(rs)) |->
        success(rs)[p].end_timestamp - success(rs)[p].start_timestamp]

RECURSIVE TokenCount(_)
\* lines 33-37: count, over the packs that have content
TokenCount(loggings) ==
    IF loggings = <<>>
    THEN 0
    ELSE Head(loggings).num + TokenCount(Tail(loggings))

\* lines 39-40
token_per_request(rs) ==
    [p \in 1..Len(success(rs)) |-> TokenCount(success(rs)[p].loggings)]

RECURSIVE Packs(_)
\* lines 32-38: token_timestamp before it is sorted
Packs(rs) ==
    IF rs = <<>>
    THEN <<>>
    ELSE SelectSeq(Head(rs).loggings, LAMBDA pack : pack.num > 0) \o Packs(Tail(rs))

RECURSIVE SortByTs(_)
\* line 44: list.sort(key=lambda x: x[0]), which is stable
SortByTs(tt) ==
    IF tt = <<>>
    THEN <<>>
    ELSE LET last == tt[Len(tt)]
             rest == SortByTs(SubSeq(tt, 1, Len(tt) - 1))
         IN  SelectSeq(rest, LAMBDA x : x.ts <= last.ts) \o <<last>>
                \o SelectSeq(rest, LAMBDA x : x.ts > last.ts)

token_timestamp(rs) == SortByTs(Packs(rs))

RECURSIVE bisect_right(_, _, _, _)
\* bisect.bisect_right(a, x, key=lambda x: x[0]); lo and hi count from 0
bisect_right(a, x, lo, hi) ==
    IF lo >= hi
    THEN lo
    ELSE LET mid == (lo + hi) \div 2
         IN  IF x < a[mid + 1].ts
             THEN bisect_right(a, x, lo, mid)
             ELSE bisect_right(a, x, mid + 1, hi)

RECURSIVE bisect_left(_, _, _, _)
\* bisect.bisect_left(a, x, key=lambda x: x[0])
bisect_left(a, x, lo, hi) ==
    IF lo >= hi
    THEN lo
    ELSE LET mid == (lo + hi) \div 2
         IN  IF a[mid + 1].ts < x
             THEN bisect_left(a, x, mid + 1, hi)
             ELSE bisect_left(a, x, lo, mid)

\* lines 47-63: one sample per step from the first timestamp to the last.  The
\* count_list of lines 47-52 gives the series its length and is not read again.
\* Only even windows are drawn, so throughput_windows / 2 is a whole number.
sample_list(tt, W, S) ==
    [i \in 1..((tt[Len(tt)].ts - tt[1].ts) \div S) + 1 |->
        LET ty == tt[1].ts + (i - 1) * S
        IN  Frac(bisect_right(tt, ty + W \div 2, 0, Len(tt))
                    - bisect_left(tt, ty - W \div 2, 0, Len(tt)), W)]

\* np.max of a series whose samples share their denominator
NpMax(series) ==
    CHOOSE x \in {series[i] : i \in 1..Len(series)} :
        \A i \in 1..Len(series) : series[i].num <= x.num

\* lines 69-73
TPOT(rs) ==
    [p \in 1..Len(success(rs)) |->
        IF token_per_request(rs)[p] = 0
        THEN Frac(0, 1)
        ELSE Frac(time_per_request(rs)[p], token_per_request(rs)[p])]

\* generate_request_level_report, lines 18-96
generate_request_level_report(rs, kw) ==
    IF Len(success(rs)) = 0
    THEN [status |-> "AssertionError"]                          \* line 24
    ELSE IF token_timestamp(rs) = <<>>
    THEN [status |-> "AssertionError"]                          \* line 42
    ELSE IF Len(time_per_request(rs)) # Len(token_per_request(rs))
    THEN [status |-> "ValueError"]                              \* line 67
    ELSE LET series == sample_list(token_timestamp(rs), kw.throughput_windows,
                                   kw.throughput_step)
             ends == {rs[p].end_timestamp : p \in 1..Len(rs)}
             starts == {rs[p].start_timestamp : p \in 1..Len(rs)}
             total_duration ==                                  \* line 78
                 (CHOOSE x \in ends : \A y \in ends : y <= x)
                    - (CHOOSE x \in starts : \A y \in starts : x <= y)
         IN  [status |-> "returned",
              request_num |-> Len(rs),
              fail_rate |-> Frac(Len(rs) - Len(success(rs)), Len(rs)),
              TTFT |-> TTFT(rs),
              latency |-> time_per_request(rs),
              SLO |-> Frac(Len(start_on_time(rs)), Len(rs)),
              time_per_request |-> time_per_request(rs),
              token_per_request |-> token_per_request(rs),
              token_timestamp |-> token_timestamp(rs),
              TPOT |-> TPOT(rs),
              total_tps_list |-> series,
              Throughput |-> NpMax(series),
              total_duration |-> total_duration,
              rps |-> IF total_duration > 0 THEN Frac(Len(rs), total_duration) ELSE Frac(0, 1)]

\* values[start:stop] of Python, for 0 <= start and any stop
PySlice(values, start, stop) ==
    LET n == Len(values)
        hi == IF stop < 0 THEN Max(n + stop, 0) ELSE Min(stop, n)
        lo == Min(start, n)
    IN  IF lo >= hi THEN <<>> ELSE SubSeq(values, lo + 1, hi)

RECURSIVE SumNum(_)
SumNum(series) ==
    IF series = <<>> THEN 0 ELSE Head(series).num + SumNum(Tail(series))

\* np.mean: nan for an empty array
NpMean(series) ==
    IF series = <<>>
    THEN [nan |-> TRUE, num |-> 0, den |-> 0]
    ELSE [nan |-> FALSE, num |-> SumNum(series), den |-> series[1].den * Len(series)]

\* report.py lines 23-33
calculate_stable_average_throughput(rep, trim_percent) ==
    LET values == rep.total_tps_list
        trim_size == (Len(values) * trim_percent) \div 100
        trimmed_values == PySlice(values, trim_size, 0 - trim_size)
    IN  NpMean(trimmed_values)

\* generate_request_level_report is called on the run's responses.
GenerateReport ==
    /\ report.status = "none"
    /\ report' = generate_request_level_report(ress, kwargs)
    /\ UNCHANGED <<now, conf, workload, schedVars, visit, trace, threadVars,
                   ress, kwargs, stable, datasetVars, cacheVars, workerVars, utilVars>>

\* show_as_dict asks the report for its stable average.
StableAverage ==
    /\ report.status = "returned"
    /\ stable.status = "none"
    /\ \E trim_percent \in TrimPercents :
          stable' = [status |-> "returned", trim_percent |-> trim_percent,
                     value |-> calculate_stable_average_throughput(report, trim_percent)]
    /\ UNCHANGED <<now, conf, workload, schedVars, visit, trace, threadVars,
                   ress, kwargs, report, datasetVars, cacheVars, workerVars, utilVars>>

InitReport ==
    /\ conf \in Configs
    /\ conf.time_step = 1 /\ conf.check_size = 1 /\ conf.skip_idle_min = 0
    /\ workload = <<>>
    /\ Started
    /\ ress \in UNION { [1..n -> ReportResponses] : n \in 0..MaxRess }
    /\ kwargs \in ReportKwargs
    /\ report = [status |-> "none"]
    /\ stable = [status |-> "none"]
    /\ NoDataset
    /\ NoCache
    /\ NoWorker
    /\ NoUtil

NextReport == GenerateReport \/ StableAverage

\* The report generator on every list of responses within the bounds.
SpecReport == InitReport /\ [][NextReport]_vars

\* The requests among ress that succeeded, and those launched on time.
Succeeded == {p \in 1..Len(ress) : ress[p].error_info = "none"}
OnTime == {p \in 1..Len(ress) : ress[p].launch_latency = 0}
Generated == report.status # "none"

\* C22: when at least one request succeeded the generator returns a report with
\* request_num = total and fail_rate = 1 - successes/total, between 0 and 1; when
\* none succeeded it raises and there is no report.
C22_FailRateOrFailFast ==
    Generated =>
        IF Succeeded # {}
        THEN /\ report.status = "returned"
             /\ report.request_num = Len(ress)
             /\ report.fail_rate.den > 0
             /\ report.fail_rate.num * Len(ress)
                    = (Len(ress) - Cardinality(Succeeded)) * report.fail_rate.den
             /\ 0 <= report.fail_rate.num
             /\ report.fail_rate.num <= report.fail_rate.den
        ELSE report.status # "returned"

\* C23: for a single successful request without pieces the report is produced,
\* with an empty TTFT list, a token count of 0 and a TPOT entry of 0.
C23_NoPiecesStillReports ==
    (Generated /\ Len(ress) = 1 /\ Succeeded = {1} /\ ress[1].loggings = <<>>) =>
        /\ report.status = "returned"
        /\ report.TTFT = <<>>
        /\ report.token_per_request = <<0>>
        /\ Len(report.TPOT) = 1 /\ report.TPOT[1].num = 0

\* C24: the report's SLO is the number of requests whose launch_latency is 0
\* divided by the number of requests.
C24_SloIsOnTimeFraction ==
    report.status = "returned" =>
        /\ report.SLO.den > 0
        /\ report.SLO.num * Len(ress) = Cardinality(OnTime) * report.SLO.den

RECURSIVE TokensWithin(_, _, _)
\* The tokens of the packs of a loggings list whose timestamp is in [from, to).
TokensWithin(loggings, from, to) ==
    IF loggings = <<>>
    THEN 0
    ELSE (IF from <= Head(loggings).ts /\ Head(loggings).ts < to
          THEN Head(loggings).num
          ELSE 0) + TokensWithin(Tail(loggings), from, to)

RECURSIVE TokensOfAll(_, _, _)
TokensOfAll(rs, from, to) ==
    IF rs = <<>>
    THEN 0
    ELSE TokensWithin(Head(rs).loggings, from, to) + TokensOfAll(Tail(rs), from, to)

\* C25: the sample at t_i = t_0 + i*S is the number of tokens whose timestamp is
\* in [t_i - W/2, t_i + W/2), divided by W, a piece of several tokens counting
\* with all of them; Throughput is the largest sample.
C25_SlidingWindowCountsTokens ==
    report.status = "returned" =>
        LET W == kwargs.throughput_windows
            S == kwargs.throughput_step
            t0 == report.token_timestamp[1].ts
            series == report.total_tps_list
        IN  /\ \A i \in 1..Len(series) :
                  LET ti == t0 + (i - 1) * S
                  IN  series[i].num * W
                         = TokensOfAll(ress, ti - W \div 2, ti + W \div 2) * series[i].den
            /\ \E i \in 1..Len(series) : report.Throughput = series[i]
            /\ \A i \in 1..Len(series) :
                  series[i].num * report.Throughput.den
                     <= report.Throughput.num * series[i].den

\* C26: the stable average is the mean of the series without its first k and its
\* last k samples, k = floor(len * trim_percent / 100); the mean of the whole
\* series when k = 0.
C26_StableAverageIsTrimmedMean ==
    stable.status = "returned" =>
        LET values == report.total_tps_list
            k == (Len(values) * stable.trim_percent) \div 100
            kept == SubSeq(values, k + 1, Len(values) - k)
        IN  kept # <<>> =>
               /\ ~stable.value.nan /\ stable.value.den > 0
               /\ stable.value.num * Len(kept) * kept[1].den
                     = SumNum(kept) * stable.value.den

\* ------------------------------------------------ the dataset normalizers
\* None, where an id or a content is expected; an offset or an interval that is
\* None is NoOffset
None == <<>>

\* separate_req_in_one_visit_with_interval: None, or a number of seconds
Intervals == {NoOffset, 1}

\* The corpora.  A single-turn corpus is its records, each known by its number; a
\* ConvAI2 corpus is its dialogs, each the number of its utterances; an OASST1
\* corpus is one message tree: message m was created at time m, parent[m] is the
\* message it answers (0 for the root).
SingleTurnCorpora == { [k \in 1..n |-> k] : n \in 0..MaxRecords }
ConvAI2Corpora == UNION { [1..n -> 1..MaxTurns] : n \in 0..MaxRecords }
Oasst1Corpora ==
    { parent \in UNION { [1..n -> 0..MaxMessages] : n \in 0..MaxMessages } :
        \A m \in 1..Len(parent) : IF m = 1 THEN parent[m] = 0
                                  ELSE parent[m] \in 1..(m - 1) }

CorporaOf(name) ==
    CASE name \in {"dolly", "openorca"} -> SingleTurnCorpora
      [] name = "convai2" -> ConvAI2Corpora
      [] name = "oasst1" -> Oasst1Corpora

Datasets ==
    UNION { [name : {name}, raw : CorporaOf(name), load : {"ok", "error"},
             cache_dir : BOOLEAN, interval : Intervals]
            : name \in {"oasst1", "convai2", "dolly", "openorca"} }

OpenAIMessage(role, content, dep_id) ==
    [role |-> role, content |-> content, dep_id |-> dep_id]

SimReq(id, dep_id, messages_with_dep) ==
    [id |-> id, dep_id |-> dep_id, messages_with_dep |-> messages_with_dep]

RECURSIVE SortByKey(_)
\* x.sort(key=lambda v: v[0]), which is stable
SortByKey(x) ==
    IF x = <<>>
    THEN <<>>
    ELSE LET last == x[Len(x)]
             rest == SortByKey(SubSeq(x, 1, Len(x) - 1))
         IN  SelectSeq(rest, LAMBDA v : v[1] <= last[1]) \o <<last>>
                \o SelectSeq(rest, LAMBDA v : v[1] > last[1])

\* utils.py lines 25-29.  With a timestamp that is None the sort's comparison, or
\* for a single entry the subtraction, raises TypeError.
key_timestamp_to_offset(x) ==
    IF \E p \in 1..Len(x) : x[p][1] = NoOffset
    THEN [status |-> "TypeError"]
    ELSE LET sorted == SortByKey(x)
         IN  [status |-> "returned",
              workload |-> [p \in 1..Len(x) |-> <<sorted[p][1] - sorted[1][1], sorted[p][2]>>]]

\* A float is a rational whose mantissa has MantissaBits bits, with any
\* exponent, kept in lowest terms as a Frac.
RECURSIVE Pow2(_)
Pow2(k) == IF k = 0 THEN 1 ELSE 2 * Pow2(k - 1)

\* n/d as (n'/d') * 2^e with 2^(MantissaBits-1) <= n'/d' < 2^MantissaBits
RECURSIVE Scaled(_, _, _)
Scaled(n, d, e) ==
    IF n < Pow2(MantissaBits - 1) * d THEN Scaled(2 * n, d, e - 1)
    ELSE IF n >= Pow2(MantissaBits) * d THEN Scaled(n, 2 * d, e + 1)
    ELSE [n |-> n, d |-> d, e |-> e]

\* n/d rounded to the nearest integer, a tie to the even one
RoundHalfEven(n, d) ==
    LET q == n \div d
        r == n % d
    IN  IF 2 * r > d \/ (2 * r = d /\ q % 2 = 1) THEN q + 1 ELSE q

\* m * 2^e in lowest terms
RECURSIVE Float(_, _)
Float(m, e) ==
    IF e < 0 /\ m % 2 = 0 THEN Float(m \div 2, e + 1)
    ELSE IF e >= 0 THEN Frac(m * Pow2(e), 1)
    ELSE Frac(m, Pow2(-e))

\* The float nearest to n/d, for n >= 0 and d > 0
Rounded(n, d) ==
    IF n = 0 THEN Frac(0, 1)
    ELSE LET s == Scaled(n, d, 0)
         IN  Float(RoundHalfEven(s.n, s.d), s.e)

\* a / b of two floats
truediv(a, b) == Rounded(a.num * b.den, a.den * b.num)

\* every offset multiplied by the ratio
MultiplyWorkload(w, compression_ratio) ==
    [p \in 1..Len(w) |->
        <<Rounded(w[p][1].num * compression_ratio.num,
                  w[p][1].den * compression_ratio.den), w[p][2]>>]

\* utils.py lines 48-49: every offset divided by the ratio
compress_workload(w, compression_ratio) ==
    [p \in 1..Len(w) |-> <<truediv(w[p][1], compression_ratio), w[p][2]>>]

\* return compress_workload(key_timestamp_to_offset(x), compression_ratio), with
\* the default ratio 1.0
Normalized(x) ==
    LET offsets == key_timestamp_to_offset(x)
    IN  IF offsets.status # "returned"
        THEN offsets
        ELSE [status |-> "returned",
              workload |-> compress_workload(
                  [p \in 1..Len(x) |-> <<Frac(offsets.workload[p][1], 1),
                                         offsets.workload[p][2]>>],
                  Frac(1, 1))]

RECURSIVE Concat(_)
\* sum(lists, [])
Concat(lists) == IF lists = <<>> THEN <<>> ELSE Head(lists) \o Concat(Tail(lists))

\* dolly.py lines 16-39: the request made of record d under the number i
DollyParseSimreq(d, i, interval) ==
    SimReq(<<"dolly", i>>, None,
           << OpenAIMessage("user", <<"prompt", d>>, None),
              OpenAIMessage("assistant",
                            IF interval # NoOffset THEN <<"response", d>> ELSE None,
                            IF interval # NoOffset THEN None ELSE <<"dolly", i>>) >>)

\* dolly.py lines 41-63.  Both comprehensions run i over range(len(raw)) for every
\* record d.
DollyToWorkload(raw, interval) ==
    LET n == Len(raw)
    IN  IF interval = NoOffset
        THEN Normalized([k \in 1..n |->
                 <<NoOffset, [i \in 1..n |->
                                 <<NoOffset, DollyParseSimreq(raw[k], i - 1, interval)>>]>>])
        ELSE Normalized(Concat([k \in 1..n |->
                 [i \in 1..n |->
                     <<interval * (i - 1),
                       << <<NoOffset, DollyParseSimreq(raw[k], i - 1, interval)>> >> >>]]))

\* openorca.py lines 18-54, for a record without system_prompt
OpenOrcaParseSimreq(d, i, interval) ==
    SimReq(<<"openorca", i>>, None,
           << OpenAIMessage("user", <<"prompt", d>>, None),
              OpenAIMessage("assistant",
                            IF interval # NoOffset THEN <<"response", d>> ELSE None,
                            IF interval # NoOffset THEN None ELSE <<"openorca", i>>) >>)

\* openorca.py lines 56-82, without sample_size
OpenOrcaToWorkload(raw, interval) ==
    LET n == Len(raw)
    IN  IF interval = NoOffset
        THEN Normalized([k \in 1..n |->
                 <<k - 1, << <<NoOffset, OpenOrcaParseSimreq(raw[k], k - 1, interval)>> >> >>])
        ELSE Normalized(Concat([k \in 1..n |->
                 << <<interval * (k - 1),
                      << <<NoOffset, OpenOrcaParseSimreq(raw[k], k - 1, interval)>> >> >> >>]))

\* convai2.py lines 16-37: the one request made of dialog i, of len utterances
ConvAI2ParseSimreq(len, i, interval) ==
    SimReq(<<"convai2", i, len - 1>>,
           IF len > 1 /\ interval = NoOffset THEN <<"convai2", i, len - 3>> ELSE None,
           [u \in 1..len |->
               LET j == u - 1
                   user == j % 2 = 0
               IN  OpenAIMessage(IF user THEN "user" ELSE "assistant",
                                 IF user \/ interval # NoOffset
                                 THEN <<"utterance", i, j>> ELSE None,
                                 IF user \/ interval # NoOffset
                                 THEN None ELSE <<"convai2", i, j - 1>>)])

\* convai2.py lines 39-61
ConvAI2ToWorkload(raw, interval) ==
    LET n == Len(raw)
    IN  IF interval = NoOffset
        THEN Normalized([k \in 1..n |->
                 <<k - 1, << <<NoOffset, ConvAI2ParseSimreq(raw[k], k - 1, interval)>> >> >>])
        ELSE Normalized(Concat([k \in 1..n |->
                 [u \in 1..(raw[k] \div 2) |->
                     <<interval * (u - 1),
                       << <<NoOffset, ConvAI2ParseSimreq(raw[k], k - 1, interval)>> >> >>]]))

RECURSIVE Depth(_, _)
Depth(parent, m) == IF parent[m] = 0 THEN 1 ELSE 1 + Depth(parent, parent[m])

\* v["role"]: the root is a prompter's message, an answer to a prompter is an
\* assistant's, an answer to an assistant a prompter's
Prompter(parent, m) == Depth(parent, m) % 2 = 1

RECURSIVE get_prompter_id(_, _)
\* oasst1.py lines 39-46
get_prompter_id(parent, cur_id) ==
    IF cur_id = 0
    THEN None
    ELSE IF Prompter(parent, cur_id)
    THEN <<"oasst1", cur_id>>
    ELSE get_prompter_id(parent, parent[cur_id])

RECURSIVE get_messages(_, _, _)
\* oasst1.py lines 49-63
get_messages(parent, cur_id, separate) ==
    IF cur_id = 0
    THEN <<>>
    ELSE LET plain == Prompter(parent, cur_id) \/ separate
         IN  Append(get_messages(parent, parent[cur_id], separate),
                    OpenAIMessage(IF Prompter(parent, cur_id) THEN "user" ELSE "assistant",
                                  IF plain THEN <<"text", cur_id>> ELSE None,
                                  IF plain THEN None
                                  ELSE get_prompter_id(parent, parent[cur_id])))

\* oasst1.py lines 48-78
Oasst1ParseSimreq(parent, cur_id, separate) ==
    SimReq(<<"oasst1", cur_id>>,
           IF ~separate THEN get_prompter_id(parent, parent[cur_id]) ELSE None,
           get_messages(parent, cur_id, separate))

\* oasst1.py lines 80-122.  The timestamp of message m is m, the group's start
\* time that of its root.
Oasst1ToWorkload(parent, separate) ==
    LET prompters == SelectSeq([m \in 1..Len(parent) |-> m],
                               LAMBDA m : Prompter(parent, m))
    IN  IF ~separate
        THEN Normalized(IF parent = <<>>
                        THEN <<>>
                        ELSE << <<1, SortByKey([q \in 1..Len(prompters) |->
                                       <<prompters[q] - 1,
                                         Oasst1ParseSimreq(parent, prompters[q], separate)>>])>> >>)
        ELSE Normalized([q \in 1..Len(prompters) |->
                 <<prompters[q],
                   << <<NoOffset, Oasst1ParseSimreq(parent, prompters[q], separate)>> >> >>])

\* The body of to_workload of the normalizer of corpus d.
ToWorkloadOf(d) ==
    CASE d.name = "dolly" -> DollyToWorkload(d.raw, d.interval)
      [] d.name = "openorca" -> OpenOrcaToWorkload(d.raw, d.interval)
      [] d.name = "convai2" -> ConvAI2ToWorkload(d.raw, d.interval)
      [] d.name = "oasst1" -> Oasst1ToWorkload(d.raw, d.interval # NoOffset)

\* __init__ of the four normalizers: the load in a try whose except logs the
\* error and goes on.  Oasst1Dataset loads through its cached _load, whose
\* wrapper raises FileNotFoundError (utils.py lines 68-69) when tmp/ is missing.
DatasetInit(d) ==
    IF d.load = "error" \/ (d.name = "oasst1" /\ ~d.cache_dir)
    THEN [status |-> "constructed", loaded |-> FALSE, logged |-> TRUE]
    ELSE [status |-> "constructed", loaded |-> TRUE, logged |-> FALSE]

\* ds = XDataset()
Construct ==
    /\ dataset.name # "none"
    /\ normalizer.status = "none"
    /\ normalizer' = DatasetInit(dataset)
    /\ UNCHANGED <<now, conf, workload, schedVars, visit, trace, threadVars,
                   reportVars, dataset, ds_workload, cacheVars, workerVars, utilVars>>

\* ds.to_workload(...), through the wrapper of cache() on a key not yet cached:
\* the root dir must exist, and the body reads the attribute the load has set.
ToWorkload ==
    /\ normalizer.status = "constructed"
    /\ ds_workload.status = "none"
    /\ ds_workload' =
          IF ~dataset.cache_dir
          THEN [status |-> "FileNotFoundError"]
          ELSE IF ~normalizer.loaded
          THEN [status |-> "AttributeError"]
          ELSE ToWorkloadOf(dataset)
    /\ UNCHANGED <<now, conf, workload, schedVars, visit, trace, threadVars,
                   reportVars, dataset, normalizer, cacheVars, workerVars, utilVars>>

InitDataset ==
    /\ conf \in Configs
    /\ conf.time_step = 1 /\ conf.check_size = 1 /\ conf.skip_idle_min = 0
    /\ workload = <<>>
    /\ Started
    /\ NoReport
    /\ dataset \in Datasets
    /\ normalizer = [status |-> "none"]
    /\ ds_workload = [status |-> "none"]
    /\ NoCache
    /\ NoWorker
    /\ NoUtil

NextDataset == Construct \/ ToWorkload

\* The normalizers on every corpus within the bounds.
SpecDataset == InitDataset /\ [][NextDataset]_vars

\* The request at place q of a visit, and whether id names a request before it.
RequestAt(v, q) == v[q][2]
NamesEarlier(v, q, id) == \E before \in 1..(q - 1) : RequestAt(v, before).id = id

\* C27: in every visit of a workload that to_workload returned, each dep_id of a
\* request or of a message names a request that comes earlier in the same visit
\* (hence never the request itself).
C27_DepsNameEarlierRequests ==
    ds_workload.status = "returned" =>
        \A p \in 1..Len(ds_workload.workload) :
            LET v == ds_workload.workload[p][2]
            IN  \A q \in 1..Len(v) :
                    /\ RequestAt(v, q).dep_id # None =>
                          NamesEarlier(v, q, RequestAt(v, q).dep_id)
                    /\ \A u \in 1..Len(RequestAt(v, q).messages_with_dep) :
                          LET message == RequestAt(v, q).messages_with_dep[u]
                          IN  message.dep_id # None => NamesEarlier(v, q, message.dep_id)

\* The requests of a workload, as <<visit, place>> pairs, and those that carry the
\* prompt of record d.
RequestsOf(w) == { <<p, q>> \in (1..Len(w)) \X (1..MaxRecords) : q <= Len(w[p][2]) }
Asking(w, d) ==
    { pq \in RequestsOf(w) :
        \E u \in 1..Len(RequestAt(w[pq[1]][2], pq[2]).messages_with_dep) :
            RequestAt(w[pq[1]][2], pq[2]).messages_with_dep[u].content = <<"prompt", d>> }

\* C28: for a Dolly or OpenOrca corpus of N records to_workload returns a workload
\* of N requests in all, the prompt of each record in exactly one of them, in the
\* default mode and in the fixed-interval mode.
C28_OneRequestPerRecord ==
    (/\ dataset.name \in {"dolly", "openorca"}
     /\ dataset.load = "ok" /\ dataset.cache_dir
     /\ ds_workload.status # "none") =>
        /\ ds_workload.status = "returned"
        /\ Cardinality(RequestsOf(ds_workload.workload)) = Len(dataset.raw)
        /\ \A d \in 1..Len(dataset.raw) :
              Cardinality(Asking(ds_workload.workload, d)) = 1

\* C29: when loading the dataset fails, or tmp/ is missing during a cached load,
\* the constructor logs the error and raises it again: no normalizer without
\* data is handed to the caller.
C29_LoadErrorIsReraised ==
    normalizer.status # "none" =>
        /\ (dataset.load = "error" \/ (dataset.name = "oasst1" /\ ~dataset.cache_dir)) =>
              (normalizer.status = "raised" /\ normalizer.logged)
        /\ normalizer.status = "constructed" => normalizer.loaded

\* ------------------------------------------------ the disk cache
\* The pickle of the value is whole when the file holds every chunk of it.
Complete(file) == file.exists /\ file.chunks = 1..MaxChunks

\* Thread r runs in the cache wrapper (utils.py lines 67-83), preempted between
\* any two of its steps.  Every caller calls the same method with the same
\* arguments: one cache_path.
OtherVars == <<now, conf, workload, schedVars, visit, trace, threadVars, reportVars,
               datasetVars, workerVars, utilVars>>

\* worker.py line 125: the thread of a pending test starts, and its run comes to
\* dataset.to_workload(...)
CacheCall(r) ==
    /\ caller[r].pc = "idle"
    /\ caller' = [caller EXCEPT ![r].pc = "call"]
    /\ UNCHANGED <<OtherVars, root_dir, cache_file>>

\* lines 68-74: the root dir is checked, then whether the file exists
CacheLookup(r) ==
    /\ caller[r].pc = "call"
    /\ caller' = [caller EXCEPT ![r].pc = IF ~root_dir THEN "done"
                                          ELSE IF cache_file.exists THEN "hit" ELSE "miss",
                                ![r].got = IF ~root_dir THEN "FileNotFoundError" ELSE @]
    /\ UNCHANGED <<OtherVars, root_dir, cache_file>>

\* lines 75-77: open(cache_path, "rb") and pickle.load, which raises on a pickle
\* that is cut short
CacheRead(r) ==
    /\ caller[r].pc = "hit"
    /\ caller' = [caller EXCEPT ![r].pc = "done",
                                ![r].got = IF Complete(cache_file)
                                           THEN "value" ELSE "UnpicklingError"]
    /\ UNCHANGED <<OtherVars, root_dir, cache_file>>

\* line 80: ret = f(*args, **kwargs)
CacheCompute(r) ==
    /\ caller[r].pc = "miss"
    /\ caller' = [caller EXCEPT ![r].pc = "open"]
    /\ UNCHANGED <<OtherVars, root_dir, cache_file>>

\* line 81: open(cache_path, "wb") creates the file, or empties it
CacheOpen(r) ==
    /\ caller[r].pc = "open"
    /\ cache_file' = [exists |-> TRUE, chunks |-> {}]
    /\ caller' = [caller EXCEPT ![r].pc = "dump", ![r].offset = 0]
    /\ UNCHANGED <<OtherVars, root_dir>>

\* lines 82-83: pickle.dump writes the next chunk at the writer's own offset; after
\* the last one the file is closed and ret returned
CacheDump(r) ==
    /\ caller[r].pc = "dump"
    /\ cache_file' = [cache_file EXCEPT !.chunks = @ \cup {caller[r].offset + 1}]
    /\ caller' = [caller EXCEPT ![r].offset = @ + 1,
                                ![r].pc = IF caller[r].offset + 1 = MaxChunks
                                          THEN "done" ELSE "dump",
                                ![r].got = IF caller[r].offset + 1 = MaxChunks
                                           THEN "value" ELSE @]
    /\ UNCHANGED <<OtherVars, root_dir>>

\* The worker's threads are about to call to_workload; the entry may be there
\* from an earlier run.
InitCache ==
    /\ conf \in Configs
    /\ conf.time_step = 1 /\ conf.check_size = 1 /\ conf.skip_idle_min = 0
    /\ workload = <<>>
    /\ Started
    /\ NoReport
    /\ NoDataset
    /\ root_dir \in BOOLEAN
    /\ cache_file \in {[exists |-> FALSE, chunks |-> {}],
                       [exists |-> TRUE, chunks |-> 1..MaxChunks]}
    /\ caller = [r \in Threads |-> [pc |-> "idle", offset |-> 0, got |-> "none"]]
    /\ NoWorker
    /\ NoUtil

NextCache ==
    \E r \in Threads :
        \/ CacheCall(r)
        \/ CacheLookup(r)
        \/ CacheRead(r)
        \/ CacheCompute(r)
        \/ CacheOpen(r)
        \/ CacheDump(r)

\* Threads of the worker calling one cached method with one key.
SpecCache == InitCache /\ [][NextCache]_vars

\* C30: with several threads in the same cached call no caller finds the cache
\* file present while it is only partly written, and every caller that is back
\* (the root dir being there) has the complete value.
C30_CacheEntryNeverSeenPartial ==
    \A r \in Threads :
        /\ caller[r].pc = "hit" => Complete(cache_file)
        /\ (caller[r].pc = "done" /\ root_dir) => caller[r].got = "value"

\* ------------------------------------------------ the api server's worker
\* The id save_config gave the test.
TestId == "test-1"

\* A function text is a sequence of pieces of text: the fixed parts of the
\* documented form with their spaces left out, an ASCII digit, the digit
\* ARABIC-INDIC THREE, a dot, a space, a line feed and any other character.
Symbols == {"lambdat:int(t/", "1", "U+0663", ".", "+", ")ift<", "elseNone", " ", "LF", "x"}

\* "lambda t: int(t/1+1) if t<1 else None" without its spaces
Documented == <<"lambdat:int(t/", "1", "+", "1", ")ift<", "1", "elseNone">>

\* The texts one insertion, replacement or deletion away from f.
OneEdit(f) ==
    { SubSeq(f, 1, i) \o <<c>> \o SubSeq(f, i + 1, Len(f)) :
        i \in 0..Len(f), c \in Symbols }
    \cup { [f EXCEPT ![i] = c] : i \in 1..Len(f), c \in Symbols }
    \cup { SubSeq(f, 1, i - 1) \o SubSeq(f, i + 1, Len(f)) : i \in 1..Len(f) }

RECURSIVE Edited(_)
Edited(n) ==
    IF n = 0 THEN {Documented}
    ELSE LET prev == Edited(n - 1)
         IN  prev \cup UNION { OneEdit(f) : f \in prev }

FuncTexts == Edited(MaxEdits)

\* f.replace(" ", "")
RemoveSpaces(f) == SelectSeq(f, LAMBDA c : c # " ")

\* \d of a str pattern matches every Unicode decimal digit
Digit(c) == c \in {"1", "U+0663"}

\* One step of the automaton of the pattern (worker.py line 33)
\*   ^lambdat:int\(t/ N \+ N \)ift< N elseNone$     with N = \d+(\.\d+)?
\* State 0 is the start; in number k, state 4(k-1)+1 awaits the first digit,
\* +2 is in the integer part, +3 awaits the first digit after the dot, +4 is in
\* the fraction; 13 has matched elseNone, 14 a line feed after it ($ also
\* matches before a line feed that ends the text); -1 is a mismatch.
Step(q, c) ==
    IF q = 0 THEN (IF c = "lambdat:int(t/" THEN 1 ELSE -1)
    ELSE IF q \in 1..12
    THEN LET k == ((q - 1) \div 4) + 1
             j == ((q - 1) % 4) + 1
             closing == <<"+", ")ift<", "elseNone">>[k]
         IN  IF Digit(c) THEN (IF j \in {1, 3} THEN q + 1 ELSE q)
             ELSE IF c = "." /\ j = 2 THEN q + 1
             ELSE IF c = closing /\ j \in {2, 4} THEN 4 * k + 1
             ELSE -1
    ELSE IF q = 13 /\ c = "LF" THEN 14
    ELSE -1

RECURSIVE Scan(_, _)
Scan(q, f) == IF f = <<>> THEN q ELSE Scan(Step(q, Head(f)), Tail(f))

\* re.match(pattern, text) is not None
re_match(text) == Scan(0, text) \in {13, 14}

\* lambda_func_policy_check, lines 31-36: TRUE when it returns, FALSE when it raises
lambda_func_policy_check(f) == re_match(RemoveSpaces(f))

\* eval(func), line 51: Python reads no number across a space and no digit
\* outside ASCII in a literal; a line feed at the end is ignored.
eval(f) ==
    IF \/ \E i \in 1..Len(f) : f[i] = "U+0663"
       \/ \E i \in 1..Len(f), j \in 1..Len(f) :
             /\ i + 1 < j
             /\ f[i] \in {"1", "."} /\ f[j] \in {"1", "."}
             /\ \A k \in (i + 1)..(j - 1) : f[k] = " "
    THEN "SyntaxError"
    ELSE "lambda"

\* The configurations of a registered test (protocols.py lines 5-15): a
\* synthesizer test with its function text, or a test on a corpus.
TestConfigs ==
    [dataset_name : {"synthesizer"}, func : FuncTexts, endpoint_type : Endpoints]
    \cup [dataset_name : {"dolly"}, func : {<<>>}, endpoint_type : Endpoints]

\* A call sim_workload_in_single_thread(*args): the parameters workload,
\* sim_start_time, endpoint_type, task_id = "" take the arguments by position.
Bind(args) ==
    [workload |-> args[1],
     sim_start_time |-> args[2],
     endpoint_type |-> args[3],
     task_id |-> IF Len(args) >= 4 THEN args[4] ELSE ""]

\* sim_workload_in_single_thread up to its loop (sim_workload.py lines 32-49):
\* an empty task_id is replaced, and a sim_start_time that is not None is
\* compared with the clock, which raises for a str.
Enter(b) ==
    [called |-> TRUE,
     sim_start_time |-> b.sim_start_time,
     endpoint_type |-> b.endpoint_type,
     task_id |-> IF b.task_id = "" THEN "uuid4" ELSE b.task_id,
     outcome |-> IF b.sim_start_time = "None" THEN "simulating" ELSE "TypeError"]

\* The file tmp/<prefix><id><suffix>
File(prefix, id, suffix) == <<prefix, id, suffix>>

\* path.replace('.png', '.webp')
ReplacePng(path) == IF path[3] = ".png" THEN <<path[1], path[2], ".webp">> ELSE path

WorkerOther == <<now, conf, workload, schedVars, visit, trace, threadVars,
                 datasetVars, cacheVars, utilVars>>

\* db.query_test_status, line 180 of db.py: a start_test call reads the status
ApiQuery(c) ==
    /\ api[c].pc = "idle"
    /\ api' = [api EXCEPT ![c] = [pc |-> "queried", status |-> test.status]]
    /\ UNCHANGED <<WorkerOther, reportVars, test, poll, run, tmp, answer>>

\* db.set_test_to_pending, lines 181-185: refused for a running test, else
\* set_status(id, "pending")
ApiSet(c) ==
    /\ api[c].pc = "queried"
    /\ api' = [api EXCEPT ![c].pc = "done"]
    /\ test' = IF api[c].status = "running" THEN test
               ELSE [test EXCEPT !.status = "pending"]
    /\ UNCHANGED <<WorkerOther, reportVars, poll, run, tmp, answer>>

\* worker.py lines 114-119: the loop reads the pending tests
Poll ==
    /\ poll = "idle"
    /\ test.status = "pending"
    /\ poll' = "found"
    /\ UNCHANGED <<WorkerOther, reportVars, test, api, run, tmp, answer>>

\* lines 124-127: the test is set running and a thread started for it
Launch ==
    /\ poll = "found"
    /\ \E r \in Threads :
          /\ run[r].pc = "idle"
          /\ \A q \in 1..(r - 1) : run[q].pc # "idle"
          /\ run' = [run EXCEPT ![r].pc = "start"]
    /\ test' = [test EXCEPT !.status = "running"]
    /\ poll' = "idle"
    /\ UNCHANGED <<WorkerOther, reportVars, api, tmp, answer>>

\* lines 99-103 and db.report_error (db.py lines 59-64): the exception is
\* recorded and the test set to error; run_with_config returns "Error"
ReportError(r, e) ==
    /\ test' = [test EXCEPT !.status = "error", !.error_info = e]
    /\ run' = [run EXCEPT ![r].pc = "done", ![r].ret = "Error", ![r].wrote = "error"]

\* lines 39-48 and 56: the dataset is constructed, which may fail
RunLoad(r) ==
    /\ run[r].pc = "start"
    /\ \E loaded \in BOOLEAN :
          IF loaded
          THEN /\ run' = [run EXCEPT ![r].pc = IF test.config.dataset_name = "synthesizer"
                                               THEN "check" ELSE "to_workload"]
               /\ UNCHANGED test
          ELSE ReportError(r, "load")
    /\ UNCHANGED <<WorkerOther, reportVars, api, poll, tmp, answer>>

\* lines 49-50
RunCheck(r) ==
    /\ run[r].pc = "check"
    /\ IF lambda_func_policy_check(test.config.func)
       THEN /\ run' = [run EXCEPT ![r].pc = "eval"]
            /\ UNCHANGED test
       ELSE ReportError(r, "policy")
    /\ UNCHANGED <<WorkerOther, reportVars, api, poll, tmp, answer>>

\* line 51
RunEval(r) ==
    /\ run[r].pc = "eval"
    /\ IF eval(test.config.func) = "lambda"
       THEN /\ run' = [run EXCEPT ![r].pc = "to_workload", ![r].evaluated = TRUE]
            /\ UNCHANGED test
       ELSE /\ test' = [test EXCEPT !.status = "error", !.error_info = "SyntaxError"]
            /\ run' = [run EXCEPT ![r].pc = "done", ![r].ret = "Error",
                                  ![r].wrote = "error", ![r].evaluated = TRUE]
    /\ UNCHANGED <<WorkerOther, reportVars, api, poll, tmp, answer>>

\* lines 52-54 and 57-58
RunToWorkload(r) ==
    /\ run[r].pc = "to_workload"
    /\ run' = [run EXCEPT ![r].pc = "sim"]
    /\ UNCHANGED <<WorkerOther, reportVars, test, api, poll, tmp, answer>>

\* lines 60-79: asyncio.run(sim_workload_in_single_thread(workload,
\* config.endpoint_type, id, **run_config))
RunSim(r) ==
    /\ run[r].pc = "sim"
    /\ LET sim == Enter(Bind(<<"workload", test.config.endpoint_type, TestId>>))
       IN  IF sim.outcome = "simulating"
           THEN /\ run' = [run EXCEPT ![r].pc = "dump", ![r].sim = sim]
                /\ UNCHANGED test
           ELSE /\ test' = [test EXCEPT !.status = "error", !.error_info = sim.outcome]
                /\ run' = [run EXCEPT ![r].pc = "done", ![r].ret = "Error",
                                      ![r].wrote = "error", ![r].sim = sim]
    /\ UNCHANGED <<WorkerOther, reportVars, api, poll, tmp, answer>>

\* A registered test, the api server and a worker with its threads.
InitWorker ==
    /\ conf \in Configs
    /\ conf.time_step = 1 /\ conf.check_size = 1 /\ conf.skip_idle_min = 0
    /\ workload = <<>>
    /\ Started
    /\ NoReport
    /\ NoDataset
    /\ NoCache
    /\ NoUtil
    /\ \E config \in TestConfigs :
          test = [status |-> "init", error_info |-> "", config |-> config]
    /\ api = [c \in 1..MaxStarts |-> [pc |-> "idle", status |-> ""]]
    /\ poll = "idle"
    /\ run = [r \in Threads |-> NoRun]
    /\ tmp = {}
    /\ answer = [path |-> "none", code |-> 0]

NextWorker ==
    \/ \E c \in 1..MaxStarts : ApiQuery(c) \/ ApiSet(c)
    \/ Poll
    \/ Launch
    \/ \E r \in Threads :
          \/ RunLoad(r)
          \/ RunCheck(r)
          \/ RunEval(r)
          \/ RunToWorkload(r)
          \/ RunSim(r)

\* The tests of the api server from start_test to the end of run_with_config.
SpecWorker == InitWorker /\ [][NextWorker]_vars

\* The documented form: the text without its spaces is lambdat:int(t/c1+c2)ift<c3
\* elseNone with c1, c2, c3 numeric literals of Python.
FixedForm(f) ==
    /\ Scan(0, RemoveSpaces(f)) = 13
    /\ \A i \in 1..Len(f) : f[i] # "U+0663"

\* C31: the function text of a synthesizer test is evaluated only if it has the
\* documented form once its spaces are removed; with any other text
\* run_with_config ends in an error, the text not evaluated and the scheduler
\* not called.
C31_OnlyFixedFormEvaluated ==
    \A r \in Threads :
        LET f == test.config.func
        IN  /\ run[r].pc \in {"to_workload", "sim", "done"} /\ run[r].evaluated
                => FixedForm(f)
            /\ (run[r].pc = "done" /\ test.config.dataset_name = "synthesizer"
                    /\ ~FixedForm(f))
                => /\ run[r].ret = "Error" /\ run[r].wrote = "error"
                   /\ ~run[r].evaluated
                   /\ ~run[r].sim.called

\* ------------------------------------------------ compressing a workload
\* The workloads handed to compress_workload: float offsets in order, each with
\* its visit.
CompressWorkloads ==
    LET Entries == { <<Frac(o, 1), v>> : o \in 0..MaxFloatOffset, v \in {"first", "second"} }
    IN  { w \in UNION { [1..n -> Entries] : n \in 1..MaxCompressed } :
            \A p \in 1..Len(w) - 1 : w[p][1].num <= w[p + 1][1].num }

\* The compression ratios: floats above 0
Ratios == { Float(m, e) : m \in 1..MaxRatio, e \in -2..0 }

CompressOther == <<now, conf, workload, schedVars, visit, trace, threadVars, reportVars,
                   datasetVars, cacheVars, workerVars>>

\* compress_workload(workload, r)
Compress ==
    /\ compressed.stage = "given"
    /\ compressed' = [compressed EXCEPT
                         !.stage = "compressed",
                         !.workload = compress_workload(compressed.original,
                                                        compressed.ratio)]
    /\ UNCHANGED <<CompressOther, checked>>

\* compress_workload(compressed, 1 / r)
Restore ==
    /\ compressed.stage = "compressed"
    /\ compressed' = [compressed EXCEPT
                         !.stage = "restored",
                         !.workload = compress_workload(compressed.workload,
                                                        truediv(Frac(1, 1), compressed.ratio))]
    /\ UNCHANGED <<CompressOther, checked>>

InitCompress ==
    /\ conf \in Configs
    /\ conf.time_step = 1 /\ conf.check_size = 1 /\ conf.skip_idle_min = 0
    /\ workload = <<>>
    /\ Started
    /\ NoReport
    /\ NoDataset
    /\ NoCache
    /\ NoWorker
    /\ \E w \in CompressWorkloads, r \in Ratios :
          compressed = [stage |-> "given", original |-> w, ratio |-> r, workload |-> w]
    /\ checked = [outcome |-> "none"]

NextCompress == Compress \/ Restore

\* A workload compressed by a ratio and then by its inverse.
SpecCompress == InitCompress /\ [][NextCompress]_vars

\* Whether compress_workload kept the visits, their order and their number
SameVisits ==
    /\ Len(compressed.workload) = Len(compressed.original)
    /\ \A p \in 1..Len(compressed.original) :
          compressed.workload[p][2] = compressed.original[p][2]

\* C32 as stated: compress_workload divides every offset by the ratio and
\* changes nothing else, and compressing by r and then by 1/r returns the
\* original offsets.
C32_RoundTripRestoresOffsets ==
    /\ compressed.stage \in {"compressed", "restored"} => SameVisits
    /\ compressed.stage = "restored"
          => \A p \in 1..Len(compressed.original) :
                compressed.workload[p][1] = compressed.original[p][1]

\* C32, amended: compress_workload changes nothing but the offsets, each
\* becoming the float nearest to offset / ratio (within one part in
\* 2^MantissaBits of the quotient); compressing by r and then by 1/r returns
\* each offset within four parts in 2^MantissaBits of the original.
C32_RoundTripWithinTolerance ==
    /\ compressed.stage \in {"compressed", "restored"} => SameVisits
    /\ compressed.stage = "compressed"
          => \A p \in 1..Len(compressed.original) :
                LET o == compressed.original[p][1]
                    c == compressed.workload[p][1]
                    r == compressed.ratio
                IN  /\ c.den > 0
                    /\ Abs(c.num * r.num * o.den - o.num * r.den * c.den)
                           * Pow2(MantissaBits) <= o.num * r.den * c.den
    /\ compressed.stage = "restored"
          => \A p \in 1..Len(compressed.original) :
                LET o == compressed.original[p][1]
                    b == compressed.workload[p][1]
                IN  /\ b.den > 0
                    /\ Abs(b.num * o.den - o.num * b.den) * Pow2(MantissaBits)
                           <= 4 * o.num * b.den

\* A round trip that does not give an offset back exactly.
C32_Witness ==
    /\ compressed.stage = "restored"
    /\ \E p \in 1..Len(compressed.original) :
          compressed.workload[p][1] # compressed.original[p][1]

\* ------------------------------------------------ the trace of a request
\* C33: without cancellation the trace events of every request a visit takes up
\* come in the order init_request, then one log_new_pack per piece with
\* content, then exactly one of mark_success_for_request and
\* mark_error_for_request, and nothing after it: a request in its stream has
\* been initialised and has a pack per content piece so far, a request that
\* has left process_request has the one terminal event of its ReqResponse, a
\* request not yet started has no event, and a request the visit gave up has
\* its terminal event too.
C33_TraceEventsInOrder ==
    \A i \in 1..N :
        LET f == visit[i]
            r == f.resp
        IN  /\ \A p \in 1..Len(r) :
                  /\ trace[i][r[p].req_id] = IF r[p].error THEN "error" ELSE "success"
                  /\ ~r[p].error => r[p].packs = ContentPieces(r[p].pieces)
            /\ f.pc = "stream" => trace[i][f.k] = "init" /\ f.packs = ContentPieces(f.log)
            /\ f.pc = "wait" => trace[i][f.k] = "none"
            /\ \A j \in Reqs :
                  (j > Len(r) + 1 \/ f.pc \in {"idle", "created"}) => trace[i][j] = "none"
            /\ (Done(i) /\ f.abort = "pre") => trace[i][Len(r) + 1] \in {"success", "error"}

\* ------------------------------------------------ the start of a request
\* C34: a request with a scheduled offset never starts (req_start_time,
\* init_request) before visit_start_time + offset; a request without an offset
\* is never put to sleep and starts at once, the first of a visit when the visit
\* starts and a later one when the request before it has completed.
C34_NeverStartsBeforeOffset ==
    \A i \in 1..N :
        LET f == visit[i]
        IN  /\ f.pc = "wait" => f.off # NoOffset /\ trace[i][f.k] = "none"
            /\ conf.stamps =>
                  \A p \in 1..Len(f.resp) :
                      LET r == f.resp[p]
                      IN  /\ (r.scheduled # NoTime /\ r.start < MaxTime)
                                => r.start >= r.scheduled
                          /\ r.scheduled = NoTime
                                => r.start = IF p = 1 THEN f.start ELSE f.resp[p - 1].end

\* C34 witness: the first request of a visit slept until its offset, and the
\* second, without an offset, started when the first had ended.
C34_Witness ==
    /\ conf.stamps
    /\ N = 1
    /\ Len(visit[1].resp) = 2
    /\ visit[1].resp[1].scheduled > visit[1].start
    /\ visit[1].resp[1].start = visit[1].resp[1].scheduled
    /\ visit[1].resp[1].end > visit[1].resp[1].start
    /\ visit[1].resp[2].scheduled = NoTime
    /\ visit[1].resp[2].start = visit[1].resp[1].end

\* ------------------------------------------------ the reply of a request
\* C35: the reply of a successful request is the content of exactly its pieces
\* of index 0 that have one, in arrival order; it is the assistant message
\* appended to the dialog of the ReqResponse, and it is what the visit's ctx
\* holds for the request: while the visit runs its ctx holds the replies of
\* the requests of this visit that succeeded, and of no other.
C35_ReplyJoinsIndexZeroPieces ==
    \A i \in 1..N :
        LET f == visit[i]
        IN  /\ \A p \in 1..Len(f.resp) :
                  LET r == f.resp[p]
                  IN  ~r.error =>
                        /\ \A q \in 1..Len(r.assistant) - 1 :
                              r.assistant[q] < r.assistant[q + 1]
                        /\ {r.assistant[q] : q \in 1..Len(r.assistant)}
                              = {r.pieces[q].n : q \in {x \in 1..Len(r.pieces) :
                                    r.pieces[x].content /\ r.pieces[x].index = 0}}
            /\ ~Done(i) =>
                  /\ DOMAIN f.ctx = {f.resp[p].req_id : p \in {x \in 1..Len(f.resp) :
                                                              ~f.resp[x].error}}
                  /\ \A p \in 1..Len(f.resp) :
                        ~f.resp[p].error => f.ctx[f.resp[p].req_id] = f.resp[p].assistant

\* C35 witness: the first request received a piece of index 1 and then one of
\* index 0, replied with the second alone, and the visit is in the stream of
\* its second request with that reply in ctx.
C35_Witness ==
    /\ N = 1
    /\ visit[1].pc = "stream"
    /\ visit[1].k = 2
    /\ Len(visit[1].resp) = 1
    /\ Len(visit[1].resp[1].pieces) = 2
    /\ visit[1].resp[1].pieces[1].content /\ visit[1].resp[1].pieces[1].index = 1
    /\ visit[1].resp[1].pieces[2].content /\ visit[1].resp[1].pieces[2].index = 0
    /\ visit[1].resp[1].assistant = <<2>>
    /\ visit[1].ctx[1] = <<2>>

\* ------------------------------------------------ idle skipping
\* C36: skip_offset never decreases; it increases only in an iteration in which
\* no visit is in flight and a next visit exists, and then by exactly
\* (next offset - cur_offset) - (skip_idle_min + 10 * TIME_STEP), which is
\* positive; in an idle iteration with skip_idle_min set where that difference
\* is positive it does increase; and after a skip the scheduler's offset is
\* not past the next visit's offset.
C36_SkipClosesIdleGapOnly ==
    [][/\ skip_offset' >= skip_offset
       /\ skip_offset' # skip_offset =>
             /\ conf.skip_idle_min # 0
             /\ tasks = <<>> /\ tasks' = <<>>
             /\ \A i \in Visits : visit'[i].pc \in {"idle", "done"}
             /\ next_index' < N
             /\ LET gap == NextOffset(workload, next_index') - cur_offset'
                               - (conf.skip_idle_min + 10 * conf.time_step)
                IN  gap > 0 /\ skip_offset' - skip_offset = gap
             /\ CurOffset(now', skip_offset') <= NextOffset(workload, next_index')
       /\ (/\ cur_offset' # cur_offset \/ launched' # launched \/ sched_pc' # sched_pc
           /\ sched_pc \in {"loop", "sleep"}
           /\ conf.skip_idle_min # 0
           /\ tasks = <<>> /\ launched' = 0
           /\ next_index' < N
           /\ NextOffset(workload, next_index') - CurOffset(now, skip_offset)
                  - (conf.skip_idle_min + 10 * conf.time_step) > 0)
             => skip_offset' > skip_offset
      ]_vars

\* C36 witness: idle time was skipped before the second visit, which was then
\* spawned within the tolerance of its offset.
C36_Witness ==
    /\ skip_offset > 0
    /\ launched = 2
    /\ visit[1].pc = "done"
    /\ Abs(cur_offset - workload[2].offset) < TIME_TOLERANCE

\* ------------------------------------------------ checking a visit
\* The ids a request of a checked visit can carry or depend on
LegalIds == { <<"req", i>> : i \in 1..MaxLegalIds }

\* The visits handed to assert_visit_is_legal: (offset or None, request) pairs;
\* a request has an id, a dep_id or None and at most one message, with content
\* or None and a dep_id or None.
LegalVisits ==
    LET Messages == { OpenAIMessage("user", content, dep_id) :
                         content \in {None, <<"text">>}, dep_id \in {None} \cup LegalIds }
        Requests == { SimReq(id, dep_id, msgs) :
                         id \in LegalIds, dep_id \in {None} \cup LegalIds,
                         msgs \in {<<>>} \cup { <<m>> : m \in Messages } }
        Entries == (({NoOffset} \cup 0..MaxLegalOffset) \X Requests)
    IN  UNION { [1..n -> Entries] : n \in 1..MaxLegalReqs }

RECURSIVE LastT(_, _)
\* last_t after the first p entries of the loop; -inf is below every offset
LastT(v, p) ==
    IF p = 0 THEN NoOffset
    ELSE IF v[p][1] # NoOffset THEN v[p][1] ELSE LastT(v, p - 1)

\* dep_id in id_pool: the ids of the whole visit
InPool(v, id) == \E q \in 1..Len(v) : RequestAt(v, q).id = id

\* assert_visit_is_legal(visit): "accepted" when every assert passes
assert_visit_is_legal(v) ==
    IF \A p \in 1..Len(v) :
          LET t == v[p][1]
              req == RequestAt(v, p)
          IN  /\ t # NoOffset => t > LastT(v, p - 1)
              /\ req.dep_id = None \/ InPool(v, req.dep_id)
              /\ \A u \in 1..Len(req.messages_with_dep) :
                    LET message == req.messages_with_dep[u]
                    IN  /\ message.dep_id = None \/ InPool(v, message.dep_id)
                        /\ message.dep_id # None => message.dep_id # req.id
                        /\ message.content # None \/ message.dep_id # None
    THEN "accepted"
    ELSE "AssertionError"

LegalOther == <<now, conf, workload, schedVars, visit, trace, threadVars, reportVars,
                datasetVars, cacheVars, workerVars>>

\* assert_visit_is_legal(d[1]) on a visit of a workload
AssertVisitIsLegal ==
    /\ checked.outcome = "none"
    /\ checked' = [checked EXCEPT !.outcome = assert_visit_is_legal(checked.visit)]
    /\ UNCHANGED <<LegalOther, compressed>>

InitLegal ==
    /\ conf \in Configs
    /\ conf.time_step = 1 /\ conf.check_size = 1 /\ conf.skip_idle_min = 0
    /\ workload = <<>>
    /\ Started
    /\ NoReport
    /\ NoDataset
    /\ NoCache
    /\ NoWorker
    /\ compressed = [stage |-> "none"]
    /\ \E v \in LegalVisits : checked = [outcome |-> "none", visit |-> v]

NextLegal == AssertVisitIsLegal

\* A visit handed to assert_visit_is_legal.
SpecLegal == InitLegal /\ [][NextLegal]_vars

\* Whether the present offsets of the visit are strictly increasing
OffsetsIncrease(v) ==
    \A p, q \in 1..Len(v) :
        p < q /\ v[p][1] # NoOffset /\ v[q][1] # NoOffset => v[p][1] < v[q][1]

\* Whether every dep_id of the visit, on a request or on a message, names a
\* request that appears strictly earlier
DepsNameEarlier(v) ==
    \A q \in 1..Len(v) :
        LET req == RequestAt(v, q)
        IN  /\ req.dep_id # None => NamesEarlier(v, q, req.dep_id)
            /\ \A u \in 1..Len(req.messages_with_dep) :
                  req.messages_with_dep[u].dep_id # None
                      => NamesEarlier(v, q, req.messages_with_dep[u].dep_id)

\* C37: assert_visit_is_legal accepts a visit only if its present offsets are
\* strictly increasing and every dep_id, on a request or on a message, names a
\* request that appears strictly earlier in the visit; it raises on every
\* other visit.
C37_AcceptsOnlyEarlierDeps ==
    checked.outcome # "none"
        => /\ checked.outcome = "accepted"
                => OffsetsIncrease(checked.visit) /\ DepsNameEarlier(checked.visit)
           /\ ~(OffsetsIncrease(checked.visit) /\ DepsNameEarlier(checked.visit))
                => checked.outcome = "AssertionError"

\* ------------------------------------------------ starting a test
\* The threads inside run_with_config
Executing == { r \in Threads : run[r].pc \notin {"idle", "done"} }

\* C39: a test is never executed by two worker threads at once: while a thread
\* executes the test its status is not put back to pending, whatever the
\* interleaving of start_test calls with the poll loop, and the threads started
\* are no more than the start_test calls that set the test pending.
C39_OneThreadPerTest ==
    /\ Cardinality(Executing) <= 1
    /\ test.status = "pending" => Executing = {}
    /\ Cardinality({ r \in Threads : run[r].pc # "idle" })
          <= Cardinality({ c \in 1..MaxStarts : api[c].pc = "done" })

\* C40: run_with_config starts the scheduler with endpoint_type equal to
\* config.endpoint_type, task_id equal to the test id and sim_start_time unset,
\* so that the events of the run are recorded under the id of the test.
C40_SchedulerStartedForTest ==
    \A r \in Threads :
        run[r].sim.called
            => /\ run[r].sim.endpoint_type = test.config.endpoint_type
               /\ run[r].sim.task_id = TestId
               /\ run[r].sim.sim_start_time = "None"
               /\ run[r].sim.outcome = "simulating"

\* ------------------------------------------------ the artifacts of a run
\* lines 80-86: the raw result and the hash of the workload are written
RunDump(r) ==
    /\ run[r].pc = "dump"
    /\ tmp' = tmp \cup {File("tmp/responses_", TestId, ".pkl"),
                        File("tmp/workload_hash_", TestId, ".txt")}
    /\ run' = [run EXCEPT ![r].pc = "report"]
    /\ UNCHANGED <<WorkerOther, reportVars, test, api, poll, answer>>

\* lines 87-88: generate_request_level_report(responses, ...), which may raise
RunReport(r) ==
    /\ run[r].pc = "report"
    /\ report' = generate_request_level_report(ress, kwargs)
    /\ IF report'.status = "returned"
       THEN /\ run' = [run EXCEPT ![r].pc = "dump_report"]
            /\ UNCHANGED test
       ELSE ReportError(r, report'.status)
    /\ UNCHANGED <<WorkerOther, ress, kwargs, stable, api, poll, tmp, answer>>

\* lines 89-94: the report is pickled and its show_as_dict() written as json
RunDumpReport(r) ==
    /\ run[r].pc = "dump_report"
    /\ tmp' = tmp \cup {File("tmp/raw_report_", TestId, ".pkl"),
                        File("tmp/report_", TestId, ".json")}
    /\ run' = [run EXCEPT ![r].pc = "rs"]
    /\ UNCHANGED <<WorkerOther, reportVars, test, api, poll, answer>>

\* line 95: RequestsStatus(responses, f"tmp/rs_{id}.png") (draw_pic.py lines
\* 25-74), which reads req_ress[0] and saves under path.replace('.png', '.webp')
RunRequestsStatus(r) ==
    /\ run[r].pc = "rs"
    /\ IF ress = <<>>
       THEN /\ ReportError(r, "IndexError")
            /\ UNCHANGED tmp
       ELSE /\ tmp' = tmp \cup {ReplacePng(File("tmp/rs_", TestId, ".png"))}
            /\ run' = [run EXCEPT ![r].pc = "tp"]
            /\ UNCHANGED test
    /\ UNCHANGED <<WorkerOther, reportVars, api, poll, answer>>

\* line 96: Throughput(report, f"tmp/tp_{id}.png") (draw_pic.py lines 76-99),
\* which reads report.token_timestamp[0] and saves under
\* path.replace('.png', '.webp')
RunThroughput(r) ==
    /\ run[r].pc = "tp"
    /\ IF report.token_timestamp = <<>>
       THEN /\ ReportError(r, "IndexError")
            /\ UNCHANGED tmp
       ELSE /\ tmp' = tmp \cup {ReplacePng(File("tmp/tp_", TestId, ".png"))}
            /\ run' = [run EXCEPT ![r].pc = "finish"]
            /\ UNCHANGED test
    /\ UNCHANGED <<WorkerOther, reportVars, api, poll, answer>>

\* line 97: set_status(id, "finish")
RunFinish(r) ==
    /\ run[r].pc = "finish"
    /\ test' = [test EXCEPT !.status = "finish"]
    /\ run' = [run EXCEPT ![r].pc = "done", ![r].wrote = "finish"]
    /\ UNCHANGED <<WorkerOther, reportVars, api, poll, tmp, answer>>

\* A report handler of app.py: 404 unless the file exists.  The answer keeps
\* the status the test had when it was given.
Get(path) ==
    /\ answer' = [path |-> path, code |-> IF path \in tmp THEN 200 ELSE 404,
                  status |-> test.status]
    /\ UNCHANGED <<WorkerOther, reportVars, test, api, poll, run, tmp>>

\* app.py lines 251-257
report_throughput == Get(File("tmp/tp_", TestId, ".png"))

\* app.py lines 260-266
report_requests_status == Get(File("tmp/rs_", TestId, ".png"))

\* app.py lines 269-275
report_json == Get(File("tmp/report_", TestId, ".json"))

\* run_with_config at line 80, the scheduler having returned the responses of
\* the run (as it does when called with sim_start_time None), and the api
\* server answering report requests.
InitArtifacts ==
    /\ conf \in Configs
    /\ conf.time_step = 1 /\ conf.check_size = 1 /\ conf.skip_idle_min = 0
    /\ workload = <<>>
    /\ Started
    /\ ress \in UNION { [1..n -> ReportResponses] : n \in 0..MaxRunRess }
    /\ kwargs \in ReportKwargs
    /\ report = [status |-> "none"]
    /\ stable = [status |-> "none"]
    /\ NoDataset
    /\ NoCache
    /\ NoUtil
    /\ \E config \in TestConfigs :
          /\ config.dataset_name = "dolly"
          /\ test = [status |-> "running", error_info |-> "", config |-> config]
          /\ run = [r \in Threads |->
                      IF r = 1
                      THEN [NoRun EXCEPT
                               !.pc = "dump",
                               !.sim = Enter(Bind(<<"workload", "None",
                                                    config.endpoint_type, TestId>>))]
                      ELSE NoRun]
    /\ api = <<>>
    /\ poll = "idle"
    /\ tmp = {}
    /\ answer = [path |-> <<>>, code |-> 0, status |-> "none"]

NextArtifacts ==
    \/ \E r \in Threads :
          \/ RunDump(r)
          \/ RunReport(r)
          \/ RunDumpReport(r)
          \/ RunRequestsStatus(r)
          \/ RunThroughput(r)
          \/ RunFinish(r)
    \/ report_throughput
    \/ report_requests_status
    \/ report_json

\* The end of run_with_config, from the responses of the run to status finish,
\* with the report handlers of the api server.
SpecArtifacts == InitArtifacts /\ [][NextArtifacts]_vars

====
